---- MODULE Spec2Model ----
(***************************************************************************)
(* Retrovue playout engine: frame ring, producer slots and MPEG-TS sink.   *)
(*                                                                         *)
(* The module holds eleven state machines over one set of variables:       *)
(*   SpecRing    FrameRingBuffer with one producer thread, one consumer    *)
(*               thread and an observer calling Size() and Capacity().     *)
(*   SpecEngine  PlayoutEngine / PlayoutControlImpl producer lifecycle.    *)
(*   SpecSink    MpegTSPlayoutSink and TsOutputSink: accept thread,        *)
(*               pacing worker, stop() caller and the client socket.       *)
(*   SpecPacing  the pacing loop of MpegTSPlayoutSink::workerLoop against  *)
(*               the station clock (SpecPacingLive: with fair threads).    *)
(*   SpecChannels  the channel table of PlayoutEngine and of               *)
(*               PlayoutControlImpl under concurrent requests              *)
(*               (SpecChannelsLive: with fair request threads).            *)
(*   SpecBackpressure  the orchestration tick's back-pressure events and   *)
(*               the sink's encoded-packet queue.                          *)
(*   SpecQueue   the pacing loop behind its encoded-packet queue           *)
(*               (SpecQueueLive: with a fair worker thread).               *)
(*   SpecTeardown  teardown of a channel in the service: the monitor       *)
(*               thread, StopChannel and the service's destructor.         *)
(*   SpecReadiness  the wait for the first asset's readiness in the        *)
(*               service's StartChannel.                                   *)
(*   SpecProducer  one FrameProducer and its decode thread                 *)
(*               (SpecProducerLive: with fair threads).                    *)
(*   SpecDrain   drainOutputQueue and sendToSocket of the sink.            *)
(* Each specification leaves the variables of the others unchanged.        *)
(***************************************************************************)
EXTENDS Integers, Sequences, FiniteSets, TLC

(***************************************************************************)
(* Bounds of the model.                                                    *)
(***************************************************************************)
\* capacity argument of FrameRingBuffer's constructor
RingN == 2
\* number of frames the producer thread offers to the ring
MaxFrames == 4
\* number of FrameProducer objects the control plane creates in one run
MaxProducers == 3
\* number of frames one producer thread pushes
MaxPushes == 1
\* number of clients that connect to the sink's socket in one run
MaxClients == 2
\* number of descriptor numbers the kernel hands out for accepted clients
MaxFds == 2
\* number of bytes a send() that does not take the whole buffer takes
PartialBytes == 94
\* number of times one write is interrupted by a signal
MaxEintr == 1
\* number of frames pushed into the ring the pacing loop reads
MaxPacedFrames == 3
\* number of frames that ring holds
PaceDepth == 2
\* how far ahead of station time an early first frame is, in microseconds
EarlyLeadUs == 2000
\* number of times the live producer is replaced while the sink paces
MaxSwitches == 1
\* request threads (gRPC handlers running at once)
MaxCallers == 2
\* largest max_output_queue_packets and output_queue_high_water_mark
MaxQueuePackets == 2
\* encoded packets handed to the output queue
MaxPackets == 3
\* calls of FrameProducer::Start() that pass the test of running_
MaxStarts == 2

(***************************************************************************)
(* Frame ring: src/src/buffer/FrameRingBuffer.cpp                          *)
(***************************************************************************)
VARIABLES
  buffer_,          \* Frame[capacity_]: slot -> frame id
  write_index_,     \* std::atomic<uint32_t>
  read_index_,      \* std::atomic<uint32_t>
  p_pc,             \* producer thread: position inside Push
  p_current_write,  \* Push: current_write
  p_next_write,     \* Push: next_write
  p_frame,          \* Push: the frame argument
  p_ret,            \* Push: last return value
  c_pc,             \* consumer thread: position inside Pop
  c_current_read,   \* Pop: current_read
  c_frame,          \* Pop: the caller's output frame
  c_snap,           \* Pop: slot content seen when the copy began
  c_ret,            \* Pop: last return value
  s_pc,             \* observer thread: position inside Size
  s_write,          \* Size: write
  s_read0,          \* read_index_ at the moment Size loaded write
  s_ret,            \* Size: last return value
  s_stale,          \* the indices moved between Size's two loads
  cap_ret,          \* Capacity: last return value
  pushed,           \* frames whose Push returned true, in order
  popped            \* frames returned by successful Pops, in order

ringVars == <<buffer_, write_index_, read_index_, p_pc, p_current_write,
              p_next_write, p_frame, p_ret, c_pc, c_current_read, c_frame,
              c_snap, c_ret, s_pc, s_write, s_read0, s_ret, s_stale, cap_ret,
              pushed, popped>>

(***************************************************************************)
(* Producer lifecycle: src/src/runtime/PlayoutEngine.cpp (ChannelState),   *)
(* src/src/playout_service.cpp (ChannelWorker), src/src/decode/            *)
(* FrameProducer.cpp.                                                      *)
(***************************************************************************)
VARIABLES
  producers,         \* FrameProducer objects: id -> state of the object
  channels_,         \* PlayoutEngine::channels_ holds the channel
  eng_starting,      \* PlayoutEngine::StartChannel waits for buffer depth
  live_producer,     \* ChannelState::live_producer (0: null)
  preview_producer,  \* ChannelState::preview_producer (0: null)
  plan_handle,       \* ChannelState::plan_handle
  active_channels_,  \* PlayoutControlImpl::active_channels_ holds the worker
  live_slot_producer,\* the producer of the control machine's live slot
  worker_producer,   \* ChannelWorker::producer (0: null)
  worker_plan_handle,\* ChannelWorker::plan_handle
  preview_slot,      \* the control machine's preview slot (getPreviewSlot)
  last_switch,       \* history: the step before was this SwitchToLive call
  switch_mark        \* history: the last PTS of the producer a switch ended

engVars == <<producers, channels_, eng_starting, live_producer,
             preview_producer, plan_handle, active_channels_,
             live_slot_producer, worker_producer, worker_plan_handle,
             preview_slot, last_switch, switch_mark>>

(***************************************************************************)
(* MPEG-TS sink: src/src/playout_sinks/mpegts/MpegTSPlayoutSink.cpp and     *)
(* TsOutputSink.cpp, with the kernel's descriptor table and the clients.    *)
(***************************************************************************)
VARIABLES
  uds_mode,             \* !config_.ts_socket_path.empty()
  internal_state_,      \* MpegTSPlayoutSink members
  running_,
  stop_requested_,
  listen_fd_,
  client_fd_,
  client_connected_,
  ts_running_,          \* TsOutputSink members (ts_output_sink_)
  ts_stop_requested_,
  ts_listen_fd_,
  ts_client_fd_,
  ts_client_connected_,
  fdtab,                \* kernel: descriptor number -> connection, 0 = free
  conns,                \* the client connections and what each has received
  pc,                   \* position of each thread
  new_client_fd,        \* tryAcceptClient's local new_client_fd, per thread
  enc,                  \* the EncoderPipeline call each thread is inside
  wr,                   \* the transport write each thread is inside
  stop_conn,            \* history: the client connected when stop() pads
  enc_session           \* the client the encoder pipeline was opened for

mVars == <<internal_state_, running_, stop_requested_, listen_fd_, client_fd_,
           client_connected_>>
tsVars == <<ts_running_, ts_stop_requested_, ts_listen_fd_, ts_client_fd_,
            ts_client_connected_>>
osVars == <<fdtab, conns>>
thVars == <<pc, new_client_fd, enc, wr>>
sinkVars == <<uds_mode, mVars, tsVars, osVars, thVars, stop_conn,
             enc_session>>

(***************************************************************************)
(* Pacing loop of the sink: MpegTSPlayoutSink::workerLoop, line 258-480,    *)
(* with the master clock and the frames at the head of the ring. It shares *)
(* running_, stop_requested_, internal_state_ and client_connected_ with   *)
(* the sink above.                                                         *)
(***************************************************************************)
VARIABLES
  now_utc_us,                \* station time: master_clock_->now_utc_us()
  frame_buffer_,             \* the frames in the ring, oldest first
  pushed_frames,             \* history: every frame pushed, in push order
  w_pc,                      \* position of the pacing worker
  w_now,                     \* workerLoop's local now_us
  wait_until,                \* argument of WaitUntilUtcUs
  sink_start_time_recorded_,
  sink_start_time_utc_us_,
  frames_sent_,
  frames_dropped_,
  late_frames_,
  late_frame_drops_,
  emitted,                   \* history: frames passed to processFrame
  encoded,                   \* history: frames passed to encodeFrame
  last,                      \* history: the worker's latest decision
  after_anchor               \* history: what happened since the anchoring

paceVars == <<now_utc_us, frame_buffer_, pushed_frames, w_pc, w_now,
              wait_until, sink_start_time_recorded_, sink_start_time_utc_us_,
              frames_sent_, frames_dropped_, late_frames_, late_frame_drops_,
              emitted, encoded, last, after_anchor>>

(***************************************************************************)
(* Channel table: src/src/runtime/PlayoutEngine.cpp,                       *)
(* src/src/playout_service.cpp, src/src/telemetry/MetricsExporter.cpp      *)
(***************************************************************************)
VARIABLES
  api,               \* which control plane the process hosts
  channel_table,     \* channels_ / active_channels_: id -> channel state
  channel_metrics_,  \* MetricsExporter: id -> reported ChannelState
  channels_mutex_,   \* the request thread that holds the mutex
  call,              \* request thread -> handler, position, locals, result
  last_event         \* what the step before returned or reported

chanVars == <<api, channel_table, channel_metrics_, channels_mutex_, call,
              last_event>>

\* The orchestration tick of a channel (the tick callback that
\* PlayoutControlImpl::StartChannel installs) and the encoded-packet queue of
\* MpegTSPlayoutSink.
VARIABLES
  underrun_active,             \* ChannelWorker::underrun_active
  overrun_active,              \* ChannelWorker::overrun_active
  tick_depths,                 \* history: Size() at the last two ticks
  tick_events,                 \* what the last tick reported
  output_queue_,               \* std::deque<EncodedPacket>, oldest first
  packets_dropped_,            \* std::atomic<uint64_t>
  packets_queued,              \* history: calls of queueEncodedPacket
  max_output_queue_packets,    \* config_.max_output_queue_packets
  output_queue_high_water_mark \* config_.output_queue_high_water_mark

tickVars == <<underrun_active, overrun_active, tick_depths, tick_events>>
queueVars == <<output_queue_, packets_dropped_, packets_queued,
               max_output_queue_packets, output_queue_high_water_mark>>

\* Teardown of a channel in the service (src/src/playout_service.cpp).
VARIABLES
  td_worker,    \* active_channels_: id -> ChannelWorker
  td_mutex,     \* the thread that holds channels_mutex_
  monitor_pc,   \* id -> the thread running MonitorTeardown for it
  stop_pc,      \* request thread -> position in StopChannelLocked
  dtor_pc,      \* the thread running ~PlayoutControlImpl
  td_last       \* history: what the last step did

tdVars == <<td_worker, td_mutex, monitor_pc, stop_pc, dtor_pc, td_last>>

\* Destruction of the engine (src/src/runtime/PlayoutEngine.cpp).
VARIABLES
  engine_dtor   \* how far ~PlayoutEngine has come

\* The wait for readiness in the service's StartChannel
\* (src/src/playout_service.cpp).
VARIABLES
  sc_pc,                  \* how far StartChannel has come
  sc_channel,             \* the channel_id of the request
  shadow_decode_ready,    \* the std::atomic<bool> of line 189
  shadow_decode_mutex,    \* the thread that holds the std::mutex of line 191
  producer_shadow_ready,  \* what the producer's IsShadowDecodeReady() says
  ev_pc,                  \* how far the producer is with its event
  wait_timed_out,         \* the 5 s of wait_for have passed
  sc_result,              \* what StartChannel returned
  ready_in_time,          \* history: the producer was ready before that
  fired_during            \* history: where StartChannel was at the callback

rdyVars == <<sc_pc, sc_channel, shadow_decode_ready, shadow_decode_mutex,
             producer_shadow_ready, ev_pc, wait_timed_out, sc_result,
             ready_in_time, fired_during>>

\* One FrameProducer and its thread (src/src/decode/FrameProducer.cpp).
VARIABLES
  fp_object,           \* the FrameProducer object: alive, destroyed, ...
  fp_running_,         \* FrameProducer::running_
  fp_stop_requested_,  \* FrameProducer::stop_requested_
  producer_thread_,    \* the thread the unique_ptr holds, 0 for none
  fp_threads,          \* every thread Start() made, in order: its state
  fp_depth,            \* frames in output_buffer_
  fp_call,             \* calling thread -> the call it is in
  fp_last              \* history: the call that returned last

fpVars == <<fp_object, fp_running_, fp_stop_requested_, producer_thread_,
            fp_threads, fp_depth, fp_call, fp_last>>

\* Draining the encoded-packet queue (MpegTSPlayoutSink.cpp).
VARIABLES
  drain_pc,      \* the worker inside drainOutputQueue
  send_sent,     \* sendToSocket's local sent: bytes of the packet that went
  packets_sent,  \* drainOutputQueue's local packets_sent
  wire,          \* history: packet -> bytes of it handed to the socket
  drain_popped,  \* history: the packets drainOutputQueue popped
  send_last      \* history: how the last sendToSocket ended

txVars == <<drain_pc, send_sent, packets_sent, wire, drain_popped, send_last>>

\* the variables of the models that come last
lateVars == <<rdyVars, fpVars, txVars>>

\* the variables of the models that follow the channel table
otherLife == <<engine_dtor, lateVars>>
lifeVars == <<tdVars, otherLife>>

vars == <<ringVars, engVars, sinkVars, paceVars, chanVars, tickVars,
          queueVars, lifeVars>>

\* a default-constructed Frame
DefaultFrame == 0
\* a slot observed while another thread was writing it
Torn == -1
\* return values of Push and Pop; RetNone: the call has not returned yet
RetNone == "none"
RetTrue == "true"
RetFalse == "false"
\* Size and Capacity have not returned yet
NoRet == -1

\* FrameRingBuffer::FrameRingBuffer: capacity_(capacity + 1)
capacity_ == RingN + 1

Slots == 0 .. (capacity_ - 1)

\* (i + 1) % capacity_
NextIndex(i) == (i + 1) % capacity_

\* mutant: the full test is skipped
PushFullNever(next_write, read) == FALSE

\* mutant: the full test compares one slot too early
PushFullEarly(next_write, read) == (next_write + 1) % capacity_ = read

\* Push: next_write == read_index_.load(acquire)
PushFull(next_write, read) == next_write = read

\* mutant: the empty test is skipped
PopEmptyNever(current_read, write) == FALSE

\* Pop: current_read == write_index_.load(acquire)
PopEmpty(current_read, write) == current_read = write

\* mutant: the wrapped branch counts one slot too many
SizeOfWrapOff(write, read) ==
  IF write >= read THEN write - read ELSE (capacity_ + 1) - (read - write)

\* Size: write >= read ? write - read : capacity_ - (read - write)
SizeOf(write, read) ==
  IF write >= read THEN write - read ELSE capacity_ - (read - write)

\* frames stored between the read index and the write index
Occupancy == (write_index_ - read_index_ + capacity_) % capacity_

RECURSIVE SlotsFrom(_, _)
\* the slots from index r up to (not including) index w, in ring order
SlotsFrom(r, w) == IF r = w THEN <<>> ELSE <<r>> \o SlotsFrom(NextIndex(r), w)

\* the frames stored in the ring, oldest first
RingContents ==
  LET s == SlotsFrom(read_index_, write_index_)
  IN  [i \in 1 .. Len(s) |-> buffer_[s[i]]]

InitRing ==
  /\ buffer_ = [i \in Slots |-> DefaultFrame]
  /\ write_index_ = 0
  /\ read_index_ = 0
  /\ p_pc = "idle"
  /\ p_current_write = 0
  /\ p_next_write = 0
  /\ p_frame = DefaultFrame
  /\ p_ret = RetNone
  /\ c_pc = "idle"
  /\ c_current_read = 0
  /\ c_frame = DefaultFrame
  /\ c_snap = DefaultFrame
  /\ c_ret = RetNone
  /\ s_pc = "idle"
  /\ s_write = 0
  /\ s_read0 = 0
  /\ s_ret = NoRet
  /\ s_stale = FALSE
  /\ cap_ret = NoRet
  /\ pushed = <<>>
  /\ popped = <<>>

\* a step of the ring leaves the rest of the system alone
RingOnly ==
  UNCHANGED <<engVars, sinkVars, paceVars, chanVars, tickVars, queueVars,
              lifeVars>>

producerVars == <<p_pc, p_current_write, p_next_write, p_frame, p_ret>>
consumerVars == <<c_pc, c_current_read, c_frame, c_snap, c_ret>>
observerVars == <<s_pc, s_write, s_read0, s_ret, s_stale, cap_ret>>

\* Push, line 24-25: load write_index_ (relaxed), compute next_write
PushLoadWrite ==
  /\ p_pc = "idle"
  /\ Len(pushed) < MaxFrames
  /\ p_current_write' = write_index_
  /\ p_next_write' = NextIndex(write_index_)
  /\ p_frame' = Len(pushed) + 1
  /\ p_ret' = RetNone
  /\ p_pc' = "check"
  /\ UNCHANGED <<buffer_, write_index_, read_index_, consumerVars,
                 observerVars, pushed, popped>>
  /\ RingOnly

\* Push, line 28-30: load read_index_ (acquire); full => return false
PushCheckFull ==
  /\ p_pc = "check"
  /\ IF PushFull(p_next_write, read_index_)
       THEN /\ p_ret' = RetFalse
            /\ p_pc' = "idle"
       ELSE /\ p_ret' = p_ret
            /\ p_pc' = "copy"
  /\ UNCHANGED <<buffer_, write_index_, read_index_, p_current_write,
                 p_next_write, p_frame, consumerVars, observerVars,
                 pushed, popped>>
  /\ RingOnly

\* Push, line 33: buffer_[current_write] = frame, the copy starts
PushCopyBegin ==
  /\ p_pc = "copy"
  /\ buffer_' = [buffer_ EXCEPT ![p_current_write] = Torn]
  /\ p_pc' = "copying"
  /\ UNCHANGED <<write_index_, read_index_, p_current_write, p_next_write,
                 p_frame, p_ret, consumerVars, observerVars, pushed, popped>>
  /\ RingOnly

\* Push, line 33: buffer_[current_write] = frame, the copy completes
PushCopyEnd ==
  /\ p_pc = "copying"
  /\ buffer_' = [buffer_ EXCEPT ![p_current_write] = p_frame]
  /\ p_pc' = "store"
  /\ UNCHANGED <<write_index_, read_index_, p_current_write, p_next_write,
                 p_frame, p_ret, consumerVars, observerVars, pushed, popped>>
  /\ RingOnly

\* Push, line 36-38: write_index_.store(next_write, release); return true
PushStoreWrite ==
  /\ p_pc = "store"
  /\ write_index_' = p_next_write
  /\ p_ret' = RetTrue
  /\ pushed' = Append(pushed, p_frame)
  /\ p_pc' = "idle"
  /\ UNCHANGED <<buffer_, read_index_, p_current_write, p_next_write,
                 p_frame, consumerVars, observerVars, popped>>
  /\ RingOnly

\* Pop, line 42: load read_index_ (relaxed)
PopLoadRead ==
  /\ c_pc = "idle"
  /\ c_current_read' = read_index_
  /\ c_ret' = RetNone
  /\ c_pc' = "check"
  /\ UNCHANGED <<buffer_, write_index_, read_index_, c_frame, c_snap,
                 producerVars, observerVars, pushed, popped>>
  /\ RingOnly

\* Pop, line 45-47: load write_index_ (acquire); empty => return false
PopCheckEmpty ==
  /\ c_pc = "check"
  /\ IF PopEmpty(c_current_read, write_index_)
       THEN /\ c_ret' = RetFalse
            /\ c_pc' = "idle"
       ELSE /\ c_ret' = c_ret
            /\ c_pc' = "copy"
  /\ UNCHANGED <<buffer_, write_index_, read_index_, c_current_read,
                 c_frame, c_snap, producerVars, observerVars, pushed, popped>>
  /\ RingOnly

\* Pop, line 50: frame = buffer_[current_read], the copy starts
PopCopyBegin ==
  /\ c_pc = "copy"
  /\ c_snap' = buffer_[c_current_read]
  /\ c_pc' = "copying"
  /\ UNCHANGED <<buffer_, write_index_, read_index_, c_current_read,
                 c_frame, c_ret, producerVars, observerVars, pushed, popped>>
  /\ RingOnly

\* Pop, line 50: frame = buffer_[current_read], the copy completes; a slot
\* written meanwhile yields a torn frame
PopCopyEnd ==
  /\ c_pc = "copying"
  /\ c_frame' = IF buffer_[c_current_read] = c_snap THEN c_snap ELSE Torn
  /\ c_pc' = "store"
  /\ UNCHANGED <<buffer_, write_index_, read_index_, c_current_read,
                 c_snap, c_ret, producerVars, observerVars, pushed, popped>>
  /\ RingOnly

\* Pop, line 53-56: read_index_.store(next_read, release); return true
PopStoreRead ==
  /\ c_pc = "store"
  /\ read_index_' = NextIndex(c_current_read)
  /\ c_ret' = RetTrue
  /\ popped' = Append(popped, c_frame)
  /\ c_pc' = "idle"
  /\ UNCHANGED <<buffer_, write_index_, c_current_read, c_frame, c_snap,
                 producerVars, observerVars, pushed>>
  /\ RingOnly

\* Size, line 60: load write_index_ (acquire)
SizeLoadWrite ==
  /\ s_pc = "idle"
  /\ s_write' = write_index_
  /\ s_read0' = read_index_
  /\ s_pc' = "read"
  /\ UNCHANGED <<buffer_, write_index_, read_index_, s_ret, s_stale, cap_ret,
                 producerVars, consumerVars, pushed, popped>>
  /\ RingOnly

\* Size, line 61-67: load read_index_ (acquire), return the difference
SizeLoadRead ==
  /\ s_pc = "read"
  /\ s_ret' = SizeOf(s_write, read_index_)
  /\ s_stale' = (s_read0 # read_index_ \/ s_write # write_index_)
  /\ s_pc' = "idle"
  /\ UNCHANGED <<buffer_, write_index_, read_index_, s_write, s_read0,
                 cap_ret, producerVars, consumerVars, pushed, popped>>
  /\ RingOnly

\* Capacity, FrameRingBuffer.h line 87: return capacity_
Capacity ==
  /\ s_pc = "idle"
  /\ cap_ret' = capacity_
  /\ UNCHANGED <<buffer_, write_index_, read_index_, s_pc, s_write, s_read0,
                 s_ret, s_stale, producerVars, consumerVars, pushed, popped>>
  /\ RingOnly

NextRing ==
  \/ PushLoadWrite
  \/ PushCheckFull
  \/ PushCopyBegin
  \/ PushCopyEnd
  \/ PushStoreWrite
  \/ PopLoadRead
  \/ PopCheckEmpty
  \/ PopCopyBegin
  \/ PopCopyEnd
  \/ PopStoreRead
  \/ SizeLoadWrite
  \/ SizeLoadRead
  \/ Capacity


(***************************************************************************)
(* Producer lifecycle.                                                     *)
(***************************************************************************)
ProducerIds == 1 .. MaxProducers

\* no FrameProducer (a null unique_ptr)
NoProducer == 0

\* a FrameProducer that has not been constructed yet
FreeProducer == [alive |-> "free", ring |-> "none", running_ |-> FALSE,
                 in_push |-> FALSE, frames_produced_ |-> 0]

\* FrameProducer::FrameProducer followed by FrameProducer::Start: the object
\* is bound to output_buffer_ and its thread runs ProduceLoop
StartedProducer(r) == [alive |-> "alive", ring |-> r, running_ |-> TRUE,
                       in_push |-> FALSE, frames_produced_ |-> 0]

\* FrameProducer::Stop (and ~FrameProducer, which calls it): sets
\* stop_requested_, joins the thread, clears running_
StoppedProducer(q) == [q EXCEPT !.running_ = FALSE]

\* the object after its unique_ptr was reset or overwritten
DestroyedProducer(q) == [StoppedProducer(q) EXCEPT !.alive = "destroyed"]

\* the next FrameProducer to construct
NewId == CHOOSE i \in ProducerIds :
           /\ producers[i].alive = "free"
           /\ \A j \in ProducerIds : producers[j].alive = "free" => i <= j

CanCreate == \E i \in ProducerIds : producers[i].alive = "free"

\* join() returns once the thread has left Push
Joinable(i) == IF i = NoProducer THEN TRUE ELSE ~producers[i].in_push

\* the producer objects after destroying those in set D and starting n on r
Replace(D, n, r) ==
  [i \in ProducerIds |->
     IF i = n THEN StartedProducer(r)
     ELSE IF i \in D THEN DestroyedProducer(producers[i])
     ELSE producers[i]]

\* the producer objects after destroying those in set D
Destroy(D) ==
  [i \in ProducerIds |->
     IF i \in D THEN DestroyedProducer(producers[i]) ELSE producers[i]]

PlanHandles == {"planA", "planB"}

AssetIds == {"assetA", "assetB"}

\* a preview slot nothing was loaded into
EmptySlot == [loaded |-> FALSE, asset_id |-> "none", producer |-> NoProducer]

\* the step before was no SwitchToLive call
NoSwitch == [path |-> "none", why |-> "none"]

\* the result of PlayoutEngine::SwitchToLive
EngResult(why) == [path |-> "engine", why |-> why]

\* the result of PlayoutControlImpl::SwitchToLive
SvcResult(why) == [path |-> "service", why |-> why]

\* no switch awaits the first frame of its new live producer
NoMark == [due |-> FALSE, prev_last |-> 0]

\* FrameProducer::ProduceStubFrame line 123 and 151-153: the PTS of the next
\* frame of producer q is stub_pts_counter_, which counts its pushed frames
NextPts(q) == q.frames_produced_

\* the counter's step from one frame to the next (stub_pts_counter_++)
kStubPtsStep == 1

\* is_shadow_ready of a producer slot: the producer has decoded its first
\* frame
IsShadowDecodeReady(i) ==
  IF i = NoProducer THEN FALSE ELSE producers[i].frames_produced_ > 0

InitEngine ==
  /\ producers = [i \in ProducerIds |-> FreeProducer]
  /\ channels_ = FALSE
  /\ eng_starting = FALSE
  /\ live_producer = NoProducer
  /\ preview_producer = NoProducer
  /\ plan_handle = "planA"
  /\ active_channels_ = FALSE
  /\ live_slot_producer = NoProducer
  /\ worker_producer = NoProducer
  /\ worker_plan_handle = "planA"
  /\ preview_slot = EmptySlot
  /\ last_switch = NoSwitch
  /\ switch_mark = NoMark

\* a step of the control plane or of a producer thread leaves the ring model
\* and the sink alone
EngineOnly ==
  UNCHANGED <<ringVars, sinkVars, paceVars, chanVars, tickVars, queueVars,
              lifeVars>>

\* a step that is no SwitchToLive, loads no preview and publishes no frame
EngineStep ==
  /\ EngineOnly
  /\ last_switch' = NoSwitch
  /\ UNCHANGED <<preview_slot, switch_mark>>

svcVars == <<active_channels_, live_slot_producer, worker_producer,
             worker_plan_handle>>

\* FrameProducer::ProduceLoop -> ProduceStubFrame / ProduceRealFrame: the
\* producer thread enters output_buffer_.Push
ProducerPushBegin(i) ==
  /\ producers[i].alive = "alive"
  /\ producers[i].running_
  /\ ~producers[i].in_push
  /\ producers[i].frames_produced_ < MaxPushes
  /\ producers' = [producers EXCEPT ![i].in_push = TRUE]
  /\ UNCHANGED <<channels_, eng_starting, live_producer, preview_producer,
                 plan_handle, svcVars>>
  /\ EngineStep

\* the producer thread returns from Push: frames_produced_.fetch_add(1)
\* and stub_pts_counter_++; the frame is published
ProducerPushEnd(i) ==
  /\ producers[i].in_push
  /\ producers' = [producers EXCEPT
                     ![i].in_push = FALSE,
                     ![i].frames_produced_ = producers[i].frames_produced_ + 1]
  /\ switch_mark' = IF i = live_producer THEN NoMark ELSE switch_mark
  /\ UNCHANGED <<channels_, eng_starting, live_producer, preview_producer,
                 plan_handle, svcVars, preview_slot>>
  /\ last_switch' = NoSwitch
  /\ EngineOnly

\* PlayoutEngine::StartChannel, line 98-150: create the ring, the live
\* producer and the renderer, start them, then wait for kReadyDepth frames
EngStartChannelBegin(plan) ==
  /\ ~channels_
  /\ ~eng_starting
  /\ CanCreate
  /\ producers' = Replace({}, NewId, "engine")
  /\ live_producer' = NewId
  /\ preview_producer' = NoProducer
  /\ plan_handle' = plan
  /\ eng_starting' = TRUE
  /\ UNCHANGED <<channels_, svcVars>>
  /\ EngineStep

\* PlayoutEngine::StartChannel, line 165-177: the depth was reached, the
\* channel is stored in channels_
EngStartChannelReady ==
  /\ eng_starting
  /\ eng_starting' = FALSE
  /\ channels_' = TRUE
  /\ UNCHANGED <<producers, live_producer, preview_producer, plan_handle,
                 svcVars>>
  /\ EngineStep

\* PlayoutEngine::StartChannel, line 154-161: kReadyTimeout passed; the
\* function returns and the ChannelState, with its producer, is destroyed
EngStartChannelTimeout ==
  /\ eng_starting
  /\ Joinable(live_producer)
  /\ producers' = Destroy({live_producer})
  /\ live_producer' = NoProducer
  /\ eng_starting' = FALSE
  /\ UNCHANGED <<channels_, preview_producer, plan_handle, svcVars>>
  /\ EngineStep

\* PlayoutEngine::LoadPreview, line 250-290: a new FrameProducer on the
\* channel's ring_buffer replaces preview_producer and is started
EngLoadPreview ==
  /\ channels_
  /\ CanCreate
  /\ Joinable(preview_producer)
  /\ producers' = Replace({preview_producer}, NewId, "engine")
  /\ preview_producer' = NewId
  /\ UNCHANGED <<channels_, eng_starting, live_producer, plan_handle, svcVars>>
  /\ EngineStep

\* the producers after a failed switch stopped the live producer anyway
AfterRefusedSwitchStopsLive(P) ==
  [i \in ProducerIds |->
     IF i = live_producer THEN StoppedProducer(P[i]) ELSE P[i]]

\* PlayoutEngine::SwitchToLive line 296-307 and PlayoutControlImpl::
\* SwitchToLive line 770-792: the producers after a call that returns at one
\* of its precondition checks
AfterRefusedSwitch(P) == P

\* the last PTS the live producer published, marked for the first frame of
\* its successor
MarkSwitch ==
  IF live_producer # NoProducer
  THEN IF producers[live_producer].frames_produced_ > 0
       THEN [due |-> TRUE,
             prev_last |-> NextPts(producers[live_producer]) - kStubPtsStep]
       ELSE NoMark
  ELSE NoMark

\* PlayoutEngine::SwitchToLive, line 292-333: no channel or no preview
\* producer => failure; else stop the live producer, move the preview
\* producer into live_producer and report success
EngSwitchToLive ==
  /\ IF channels_
     THEN IF preview_producer # NoProducer
          THEN /\ Joinable(live_producer)
               /\ producers' = Destroy({live_producer})
               /\ live_producer' = preview_producer
               /\ preview_producer' = NoProducer
               /\ switch_mark' = MarkSwitch
               /\ last_switch' = EngResult("ok")
          ELSE /\ producers' = AfterRefusedSwitch(producers)
               /\ last_switch' = EngResult("no_preview")
               /\ UNCHANGED <<live_producer, preview_producer, switch_mark>>
     ELSE /\ producers' = AfterRefusedSwitch(producers)
          /\ last_switch' = EngResult("no_channel")
          /\ UNCHANGED <<live_producer, preview_producer, switch_mark>>
  /\ UNCHANGED <<channels_, eng_starting, plan_handle, svcVars, preview_slot>>
  /\ EngineOnly

\* PlayoutEngine::UpdatePlan, line 335-360: only the plan handle changes
EngUpdatePlan(plan) ==
  /\ channels_
  /\ plan_handle' = plan
  /\ UNCHANGED <<producers, channels_, eng_starting, live_producer,
                 preview_producer, svcVars>>
  /\ EngineStep

\* PlayoutEngine::StopChannel, line 183-248: stop both producers, drain the
\* ring, erase the channel
EngStopChannel ==
  /\ channels_
  /\ Joinable(live_producer)
  /\ Joinable(preview_producer)
  /\ producers' = Destroy({live_producer, preview_producer})
  /\ live_producer' = NoProducer
  /\ preview_producer' = NoProducer
  /\ channels_' = FALSE
  /\ UNCHANGED <<eng_starting, plan_handle, svcVars>>
  /\ EngineStep

\* PlayoutControlImpl::StartChannel, line 133-453: the first asset is loaded
\* into the preview slot, activated as live and its producer is running on
\* the worker's ring_buffer; ChannelWorker::producer stays null
SvcStartChannel(plan) ==
  /\ ~active_channels_
  /\ CanCreate
  /\ producers' = Replace({}, NewId, "service")
  /\ live_slot_producer' = NewId
  /\ worker_producer' = NoProducer
  /\ worker_plan_handle' = plan
  /\ active_channels_' = TRUE
  /\ UNCHANGED <<channels_, eng_starting, live_producer, preview_producer,
                 plan_handle>>
  /\ EngineStep

\* PlayoutControlImpl::UpdatePlan, line 455-533: stop ChannelWorker::producer
\* if there is one, clear the ring, create and start a new FrameProducer on
\* the same ring_buffer; the producer of the live slot is not touched
SvcUpdatePlan(plan) ==
  /\ active_channels_
  /\ CanCreate
  /\ Joinable(worker_producer)
  /\ producers' = Replace({worker_producer}, NewId, "service")
  /\ worker_producer' = NewId
  /\ worker_plan_handle' = plan
  /\ UNCHANGED <<channels_, eng_starting, live_producer, preview_producer,
                 plan_handle, active_channels_, live_slot_producer>>
  /\ EngineStep

\* PlayoutControlImpl::StopChannelLocked, line 913-1071: stop the slot
\* producers and the legacy producer, erase the worker
SvcStopChannel ==
  /\ active_channels_
  /\ Joinable(live_slot_producer)
  /\ Joinable(worker_producer)
  /\ Joinable(preview_slot.producer)
  /\ producers' = Destroy({live_slot_producer, worker_producer,
                           preview_slot.producer})
  /\ live_slot_producer' = NoProducer
  /\ worker_producer' = NoProducer
  /\ preview_slot' = EmptySlot
  /\ active_channels_' = FALSE
  /\ UNCHANGED <<channels_, eng_starting, live_producer, preview_producer,
                 plan_handle, worker_plan_handle, switch_mark>>
  /\ last_switch' = NoSwitch
  /\ EngineOnly

\* PlayoutControlImpl::LoadPreview, line 688-753, with the control machine's
\* load_preview: the preview slot holds a new producer of the asset, started
\* in shadow mode (it decodes, but not into the channel's ring)
SvcLoadPreview(a) ==
  /\ active_channels_
  /\ CanCreate
  /\ Joinable(preview_slot.producer)
  /\ producers' = Replace({preview_slot.producer}, NewId, "shadow")
  /\ preview_slot' = [loaded |-> TRUE, asset_id |-> a, producer |-> NewId]
  /\ UNCHANGED <<channels_, eng_starting, live_producer, preview_producer,
                 plan_handle, svcVars, switch_mark>>
  /\ last_switch' = NoSwitch
  /\ EngineOnly

\* the control machine's activate_preview_as_live: refused unless the
\* preview slot is loaded and shadow-ready
CanActivatePreview ==
  preview_slot.loaded /\ IsShadowDecodeReady(preview_slot.producer)

\* activate_preview_as_live: the old live slot is torn down and the preview
\* producer publishes to the channel's ring as the live slot
ActivatedProducers ==
  [i \in ProducerIds |->
     IF i = preview_slot.producer
     THEN [producers[i] EXCEPT !.ring = "service"]
     ELSE IF i = live_slot_producer THEN DestroyedProducer(producers[i])
     ELSE producers[i]]

\* PlayoutControlImpl::SwitchToLive, line 755-812: no channel => NOT_FOUND;
\* preview not loaded or loaded with another asset id => INVALID_ARGUMENT;
\* activatePreviewAsLive fails => INTERNAL; else success
SvcSwitchToLive(a) ==
  /\ IF ~active_channels_
     THEN /\ producers' = AfterRefusedSwitch(producers)
          /\ last_switch' = SvcResult("no_channel")
          /\ UNCHANGED <<live_slot_producer, preview_slot>>
     ELSE IF ~preview_slot.loaded
     THEN /\ producers' = AfterRefusedSwitch(producers)
          /\ last_switch' = SvcResult("no_preview")
          /\ UNCHANGED <<live_slot_producer, preview_slot>>
     ELSE IF preview_slot.asset_id # a
     THEN /\ producers' = AfterRefusedSwitch(producers)
          /\ last_switch' = SvcResult("mismatch")
          /\ UNCHANGED <<live_slot_producer, preview_slot>>
     ELSE IF ~CanActivatePreview
     THEN /\ last_switch' = SvcResult("not_ready")
          /\ UNCHANGED <<producers, live_slot_producer, preview_slot>>
     ELSE /\ Joinable(live_slot_producer)
          /\ producers' = ActivatedProducers
          /\ live_slot_producer' = preview_slot.producer
          /\ preview_slot' = EmptySlot
          /\ last_switch' = SvcResult("ok")
  /\ UNCHANGED <<channels_, eng_starting, live_producer, preview_producer,
                 plan_handle, active_channels_, worker_producer,
                 worker_plan_handle, switch_mark>>
  /\ EngineOnly

NextEngine ==
  \/ \E i \in ProducerIds : ProducerPushBegin(i)
  \/ \E i \in ProducerIds : ProducerPushEnd(i)
  \/ \E plan \in PlanHandles : EngStartChannelBegin(plan)
  \/ EngStartChannelReady
  \/ EngStartChannelTimeout
  \/ EngLoadPreview
  \/ EngSwitchToLive
  \/ \E plan \in PlanHandles : EngUpdatePlan(plan)
  \/ EngStopChannel
  \/ \E plan \in PlanHandles : SvcStartChannel(plan)
  \/ \E plan \in PlanHandles : SvcUpdatePlan(plan)
  \/ SvcStopChannel
  \/ \E a \in AssetIds : SvcLoadPreview(a)
  \/ \E a \in AssetIds : SvcSwitchToLive(a)

(***************************************************************************)
(* MPEG-TS sink.                                                           *)
(***************************************************************************)
\* size of one transport-stream packet, the unit the encoder hands to the
\* write callback and the size of the null packet stop() writes
kTsPacketSize == 188

\* an invalid descriptor (listen_fd_(-1), client_fd_(-1))
NoFd == -1

\* the descriptor socket() returns for the listening socket
ListenFd == 0

\* no connection behind a descriptor number
NoConn == 0

\* the descriptor numbers accept() can return
Fds == 1 .. MaxFds

ClientIds == 1 .. MaxClients

\* accept thread of MpegTSPlayoutSink, pacing worker, the caller of stop(),
\* accept thread of TsOutputSink
Threads == {"accept", "worker", "stop", "ts_accept"}

\* the threads that call MpegTSPlayoutSink::tryAcceptClient
Acceptors == {"accept", "worker"}

\* the threads that call into the EncoderPipeline
EncoderCallers == {"accept", "worker", "stop"}

\* no transport write in progress
\* conn: the connection behind the descriptor when the write was called;
\* dst: the connection that received the first byte; good: the bytes that
\* reached dst at the offset where dst's copy of the buffer ended
NoWrite == [st |-> "none", sock |-> NoFd, conn |-> NoConn, dst |-> NoConn,
            size |-> 0, sent |-> 0, good |-> 0, eintr |-> 0,
            started |-> FALSE, ret |-> "none"]

\* a client that has not connected yet
\* foreign: the client received encoder output of a session that was not
\* opened for it
IdleClient == [st |-> "idle", peer_gone |-> FALSE, rx |-> 0, null_rx |-> 0,
               foreign |-> FALSE]

\* the connection behind descriptor f
FdConn(f) == IF f \in Fds THEN fdtab[f] ELSE NoConn

\* close(f): the descriptor number becomes free (EBADF changes nothing)
FdtabClose(f) == IF f \in Fds THEN [fdtab EXCEPT ![f] = NoConn] ELSE fdtab

\* close(f): the connection behind f is closed
ConnsClose(f) ==
  IF FdConn(f) # NoConn THEN [conns EXCEPT ![FdConn(f)].st = "closed"]
  ELSE conns

HasFreeFd == \E f \in Fds : fdtab[f] = NoConn

\* accept() returns the lowest descriptor number that is free
FreeFd == CHOOSE f \in Fds :
            fdtab[f] = NoConn /\ \A g \in Fds : fdtab[g] = NoConn => f <= g

HasPending == \E c \in ClientIds : conns[c].st = "pending"

\* accept() returns the connection that has waited longest
PendingClient == CHOOSE c \in ClientIds :
                   /\ conns[c].st = "pending"
                   /\ \A d \in ClientIds : conns[d].st = "pending" => c <= d

\* the byte counts one send() of rem bytes can return
SendSizes(rem) == {rem} \cup {n \in {PartialBytes} : n < rem}

\* Write line 176, writeAllBlocking line 832-833: sent += result
AfterSend(sent, n) == sent + n

\* Write line 154, writeAllBlocking line 816: the loop ends when all is sent
SendDone(sent, size) == sent >= size

\* connection c after it received n bytes of encoder output
Received(c, n) ==
  [conns EXCEPT ![c].rx = (conns[c].rx + n) % kTsPacketSize,
                ![c].foreign = conns[c].foreign \/ enc_session # c]

\* connection c after it received n bytes of the null packet
ReceivedNull(c, n) ==
  [conns EXCEPT ![c].rx = (conns[c].rx + n) % kTsPacketSize,
                ![c].null_rx = conns[c].null_rx + n]

\* where a thread continues after tryAcceptClient returns
AfterTryAccept(t) == IF t = "accept" THEN "loop" ELSE "frame"

InitSink ==
  /\ uds_mode \in BOOLEAN
  /\ internal_state_ = "Idle"
  /\ running_ = FALSE
  /\ stop_requested_ = FALSE
  /\ listen_fd_ = NoFd
  /\ client_fd_ = NoFd
  /\ client_connected_ = FALSE
  /\ ts_running_ = FALSE
  /\ ts_stop_requested_ = FALSE
  /\ ts_listen_fd_ = NoFd
  /\ ts_client_fd_ = NoFd
  /\ ts_client_connected_ = FALSE
  /\ fdtab = [f \in Fds |-> NoConn]
  /\ conns = [c \in ClientIds |-> IdleClient]
  /\ pc = [t \in Threads |-> "off"]
  /\ new_client_fd = [t \in Threads |-> NoFd]
  /\ enc = [t \in Threads |-> "none"]
  /\ wr = [t \in Threads |-> NoWrite]
  /\ stop_conn = NoConn
  /\ enc_session = NoConn

\* a step of the sink leaves the ring model and the control plane alone
SinkOnly ==
  UNCHANGED <<ringVars, engVars, paceVars, chanVars, tickVars, queueVars,
              lifeVars>>

\* MpegTSPlayoutSink::start, line 94-159: open the listening socket (through
\* TsOutputSink::Initialize and Start in UDS mode, initializeSocket in TCP
\* mode), start the accept thread of the mode and the worker thread
SinkStart ==
  /\ ~running_
  /\ internal_state_ = "Idle"
  /\ \E ok \in BOOLEAN :
       IF ok
       THEN /\ internal_state_' = "Running"
            /\ running_' = TRUE
            /\ stop_requested_' = FALSE
            /\ listen_fd_' = IF uds_mode THEN NoFd ELSE ListenFd
            /\ ts_listen_fd_' = IF uds_mode THEN ListenFd ELSE NoFd
            /\ ts_running_' = uds_mode
            /\ ts_stop_requested_' = FALSE
            /\ pc' = [pc EXCEPT !["worker"] = "loop",
                                !["stop"] = "idle",
                                !["accept"] = IF uds_mode THEN "off" ELSE "loop",
                                !["ts_accept"] = IF uds_mode THEN "loop" ELSE "off"]
       ELSE /\ internal_state_' = "Error"
            /\ UNCHANGED <<running_, stop_requested_, listen_fd_, ts_listen_fd_,
                           ts_running_, ts_stop_requested_, pc>>
  /\ UNCHANGED <<uds_mode, client_fd_, client_connected_, ts_client_fd_,
                 ts_client_connected_, osVars, new_client_fd, enc, wr,
                 stop_conn, enc_session>>
  /\ SinkOnly

\* a client connects to the listening socket and waits in its backlog
PeerConnect ==
  /\ listen_fd_ # NoFd \/ ts_listen_fd_ # NoFd
  /\ \E c \in ClientIds :
       /\ conns[c].st = "idle"
       /\ \A d \in ClientIds : conns[d].st = "idle" => c <= d
       /\ conns' = [conns EXCEPT ![c].st = "pending"]
  /\ UNCHANGED <<uds_mode, mVars, tsVars, fdtab, thVars, stop_conn,
                 enc_session>>
  /\ SinkOnly

\* a client closes its end of the connection
PeerClose(c) ==
  /\ conns[c].st \in {"pending", "open"}
  /\ ~conns[c].peer_gone
  /\ conns' = [conns EXCEPT ![c].peer_gone = TRUE]
  /\ UNCHANGED <<uds_mode, mVars, tsVars, fdtab, thVars, stop_conn,
                 enc_session>>
  /\ SinkOnly

\* acceptThread line 611-612, workerLoop line 273-274 and 457-479,
\* TsOutputSink::AcceptThread line 188-189: the loop condition fails once stop
\* was requested and the thread function returns (the worker's flush loop
\* finds the output queue empty: nothing in this code base fills it)
ThreadExit(t) ==
  /\ pc[t] = "loop"
  /\ IF t = "ts_accept" THEN ts_stop_requested_ ELSE stop_requested_
  /\ pc' = [pc EXCEPT ![t] = "done"]
  /\ UNCHANGED <<uds_mode, mVars, tsVars, osVars, new_client_fd, enc, wr,
                 stop_conn, enc_session>>
  /\ SinkOnly

\* MpegTSPlayoutSink::tryAcceptClient, line 636-649, called by acceptThread
\* (line 613) and by workerLoop in TCP mode (line 299): return false when a
\* client is connected or there is no listening socket
TryAcceptCheck(t) ==
  /\ ~uds_mode
  /\ pc[t] = "loop"
  /\ ~stop_requested_
  /\ pc' = [pc EXCEPT ![t] = IF client_connected_ \/ listen_fd_ = NoFd
                             THEN AfterTryAccept(t) ELSE "accept"]
  /\ UNCHANGED <<uds_mode, mVars, tsVars, osVars, new_client_fd, enc, wr,
                 stop_conn, enc_session>>
  /\ SinkOnly

\* tryAcceptClient, line 653-680: accept(); nothing waiting (or no descriptor
\* left) => return false; fcntl fails => close(new_client_fd), return false
TryAcceptAccept(t) ==
  /\ pc[t] = "accept"
  /\ IF HasPending /\ HasFreeFd
     THEN \E ok \in BOOLEAN :
            IF ok
            THEN /\ fdtab' = [fdtab EXCEPT ![FreeFd] = PendingClient]
                 /\ conns' = [conns EXCEPT ![PendingClient].st = "open"]
                 /\ new_client_fd' = [new_client_fd EXCEPT ![t] = FreeFd]
                 /\ pc' = [pc EXCEPT ![t] = "store"]
            ELSE /\ conns' = [conns EXCEPT ![PendingClient].st = "closed"]
                 /\ pc' = [pc EXCEPT ![t] = AfterTryAccept(t)]
                 /\ UNCHANGED <<fdtab, new_client_fd>>
     ELSE /\ pc' = [pc EXCEPT ![t] = AfterTryAccept(t)]
          /\ UNCHANGED <<fdtab, conns, new_client_fd>>
  /\ UNCHANGED <<uds_mode, mVars, tsVars, enc, wr, stop_conn, enc_session>>
  /\ SinkOnly

\* tryAcceptClient, line 692-702: client_fd_ = new_client_fd;
\* client_connected_.store(true); then initializeEncoderForClient (line
\* 739-744) enters encoder_pipeline_->close() and open(): a new encoder
\* session for the client just stored
TryAcceptStore(t) ==
  /\ pc[t] = "store"
  /\ client_fd_' = new_client_fd[t]
  /\ client_connected_' = TRUE
  /\ new_client_fd' = [new_client_fd EXCEPT ![t] = NoFd]
  /\ enc' = [enc EXCEPT ![t] = "init"]
  /\ enc_session' = FdConn(new_client_fd[t])
  /\ pc' = [pc EXCEPT ![t] = "in_init"]
  /\ UNCHANGED <<uds_mode, internal_state_, running_, stop_requested_,
                 listen_fd_, tsVars, osVars, wr, stop_conn>>
  /\ SinkOnly

\* initializeEncoderForClient returns. TCP mode (tryAcceptClient line
\* 702-708): failure => handleClientDisconnect. UDS mode (workerLoop line
\* 286-289): failure => client_connected_.store(false)
EncInitEnd(t) ==
  /\ pc[t] = "in_init"
  /\ wr[t].st \in {"none", "ret"}
  /\ enc' = [enc EXCEPT ![t] = "none"]
  /\ wr' = [wr EXCEPT ![t] = NoWrite]
  /\ \E ok \in BOOLEAN :
       IF ok
       THEN /\ pc' = [pc EXCEPT ![t] = AfterTryAccept(t)]
            /\ UNCHANGED <<client_connected_, enc_session>>
       ELSE /\ enc_session' = NoConn
            /\ IF uds_mode
               THEN /\ client_connected_' = FALSE
                    /\ pc' = [pc EXCEPT ![t] = "frame"]
               ELSE /\ pc' = [pc EXCEPT ![t] = "disconnect"]
                    /\ UNCHANGED client_connected_
  /\ UNCHANGED <<uds_mode, internal_state_, running_, stop_requested_,
                 listen_fd_, client_fd_, tsVars, osVars, new_client_fd,
                 stop_conn>>
  /\ SinkOnly

\* MpegTSPlayoutSink::handleClientDisconnect, line 711-737: return when not
\* connected; close(client_fd_), client_fd_ = -1, client_connected_ = false,
\* clear the queue, encoder_pipeline_->close()
HandleClientDisconnect(t) ==
  /\ pc[t] = "disconnect"
  /\ IF client_connected_
     THEN /\ fdtab' = FdtabClose(client_fd_)
          /\ conns' = ConnsClose(client_fd_)
          /\ client_fd_' = NoFd
          /\ client_connected_' = FALSE
          /\ enc_session' = NoConn
     ELSE UNCHANGED <<fdtab, conns, client_fd_, client_connected_,
                      enc_session>>
  /\ pc' = [pc EXCEPT ![t] = AfterTryAccept(t)]
  /\ UNCHANGED <<uds_mode, internal_state_, running_, stop_requested_,
                 listen_fd_, tsVars, new_client_fd, enc, wr, stop_conn>>
  /\ SinkOnly

\* workerLoop in UDS mode, line 280-296: follow TsOutputSink's connection
\* state; a new client => client_connected_ = true and the encoder is
\* initialised; client gone => handleClientDisconnect
WorkerUdsPoll ==
  /\ uds_mode
  /\ pc["worker"] = "loop"
  /\ ~stop_requested_
  /\ IF ts_client_connected_
     THEN IF ~client_connected_
          THEN /\ client_connected_' = TRUE
               /\ enc' = [enc EXCEPT !["worker"] = "init"]
               /\ pc' = [pc EXCEPT !["worker"] = "in_init"]
               /\ enc_session' = FdConn(ts_client_fd_)
          ELSE /\ pc' = [pc EXCEPT !["worker"] = "frame"]
               /\ UNCHANGED <<client_connected_, enc, enc_session>>
     ELSE /\ pc' = [pc EXCEPT !["worker"] =
                      IF client_connected_ THEN "disconnect" ELSE "frame"]
          /\ UNCHANGED <<client_connected_, enc, enc_session>>
  /\ UNCHANGED <<uds_mode, internal_state_, running_, stop_requested_,
                 listen_fd_, client_fd_, tsVars, osVars, new_client_fd, wr,
                 stop_conn>>
  /\ SinkOnly

\* workerLoop line 303-453 and processFrame line 482-499: no frame due (ring
\* empty, frame early or dropped as late) => next iteration; a frame is
\* popped => encoder_pipeline_->encodeFrame when a client is connected
WorkerFrame ==
  /\ pc["worker"] = "frame"
  /\ \E due \in BOOLEAN :
       IF due /\ client_connected_
       THEN /\ enc' = [enc EXCEPT !["worker"] = "encode"]
            /\ pc' = [pc EXCEPT !["worker"] = "in_encode"]
       ELSE /\ pc' = [pc EXCEPT !["worker"] = "loop"]
            /\ UNCHANGED enc
  /\ UNCHANGED <<uds_mode, mVars, tsVars, osVars, new_client_fd, wr,
                 stop_conn, enc_session>>
  /\ SinkOnly

\* processFrame line 490-494: encodeFrame returns (its result only feeds a
\* counter)
EncodeEnd ==
  /\ pc["worker"] = "in_encode"
  /\ wr["worker"].st \in {"none", "ret"}
  /\ enc' = [enc EXCEPT !["worker"] = "none"]
  /\ wr' = [wr EXCEPT !["worker"] = NoWrite]
  /\ pc' = [pc EXCEPT !["worker"] = "loop"]
  /\ UNCHANGED <<uds_mode, mVars, tsVars, osVars, new_client_fd, stop_conn,
                 enc_session>>
  /\ SinkOnly

\* TsOutputSink::TryAcceptClient, line 211-219, called by AcceptThread (line
\* 190): return false when a client is connected or nothing listens
TsAcceptCheck ==
  /\ pc["ts_accept"] = "loop"
  /\ ~ts_stop_requested_
  /\ ~ts_client_connected_
  /\ ts_listen_fd_ # NoFd
  /\ pc' = [pc EXCEPT !["ts_accept"] = "ts_accept"]
  /\ UNCHANGED <<uds_mode, mVars, tsVars, osVars, new_client_fd, enc, wr,
                 stop_conn, enc_session>>
  /\ SinkOnly

\* TsOutputSink::TryAcceptClient, line 221-261: accept(); fcntl fails =>
\* close(new_client_fd); else client_fd_ = new_client_fd and
\* client_connected_.store(true)
TsAcceptAccept ==
  /\ pc["ts_accept"] = "ts_accept"
  /\ IF HasPending /\ HasFreeFd
     THEN \E ok \in BOOLEAN :
            IF ok
            THEN /\ fdtab' = [fdtab EXCEPT ![FreeFd] = PendingClient]
                 /\ conns' = [conns EXCEPT ![PendingClient].st = "open"]
                 /\ ts_client_fd_' = FreeFd
                 /\ ts_client_connected_' = TRUE
            ELSE /\ conns' = [conns EXCEPT ![PendingClient].st = "closed"]
                 /\ UNCHANGED <<fdtab, ts_client_fd_, ts_client_connected_>>
     ELSE UNCHANGED <<fdtab, conns, ts_client_fd_, ts_client_connected_>>
  /\ pc' = [pc EXCEPT !["ts_accept"] = "loop"]
  /\ UNCHANGED <<uds_mode, mVars, ts_running_, ts_stop_requested_,
                 ts_listen_fd_, new_client_fd, enc, wr, stop_conn, enc_session>>
  /\ SinkOnly

\* a send() on connection c fails: the descriptor is closed or the peer is gone
PeerGone(c) == IF c = NoConn THEN TRUE ELSE conns[c].peer_gone

\* the descriptor a thread's write loop passes to send(): TsOutputSink::Write
\* reads client_fd_ on every call, writeAllBlocking uses its local sock
SendFd(t) == IF uds_mode THEN ts_client_fd_ ELSE wr[t].sock

\* a write that returned false / -1 before its send loop
FailedWrite == [NoWrite EXCEPT !.st = "ret", !.ret = "fail"]

\* a write that enters its send loop on descriptor f
StartedWrite(f) ==
  [NoWrite EXCEPT !.st = "loop", !.sock = f, !.conn = FdConn(f),
                  !.size = kTsPacketSize, !.started = TRUE]

\* writePacketCallback -> MpegTSPlayoutSink::writeAllBlocking, line 784-814.
\* The callback is registered with the encoder (line 743); close, open and
\* encodeFrame may each invoke it any number of times while a session is
\* open or being opened. UDS mode:
\* IsClientConnected, then TsOutputSink::Write line 147-153. TCP mode: no
\* client => -1; sock = client_fd_; sock < 0 => client_connected_ = false, -1
WriteEnter(t) ==
  /\ enc[t] # "none"
  /\ enc_session # NoConn
  /\ wr[t].st \in {"none", "ret"}
  /\ IF uds_mode
     THEN /\ wr' = [wr EXCEPT ![t] =
                      IF ts_client_connected_ /\ ts_client_fd_ # NoFd
                      THEN StartedWrite(ts_client_fd_) ELSE FailedWrite]
          /\ UNCHANGED client_connected_
     ELSE IF ~client_connected_
          THEN /\ wr' = [wr EXCEPT ![t] = FailedWrite]
               /\ UNCHANGED client_connected_
          ELSE IF client_fd_ = NoFd
               THEN /\ wr' = [wr EXCEPT ![t] = FailedWrite]
                    /\ client_connected_' = FALSE
               ELSE /\ wr' = [wr EXCEPT ![t] = StartedWrite(client_fd_)]
                    /\ UNCHANGED client_connected_
  /\ UNCHANGED <<uds_mode, internal_state_, running_, stop_requested_,
                 listen_fd_, client_fd_, tsVars, osVars, pc, new_client_fd,
                 enc, stop_conn, enc_session>>
  /\ SinkOnly

\* Write line 158-160, writeAllBlocking line 820-823: send() returns -1 with
\* EINTR; the loop continues with the same offset
WriteSendEintr(t) ==
  /\ wr[t].st = "loop"
  /\ FdConn(SendFd(t)) # NoConn
  /\ wr[t].eintr < MaxEintr
  /\ wr' = [wr EXCEPT ![t].eintr = wr[t].eintr + 1]
  /\ UNCHANGED <<uds_mode, mVars, tsVars, osVars, pc, new_client_fd, enc,
                 stop_conn, enc_session>>
  /\ SinkOnly

\* Write line 175-177, writeAllBlocking line 831-836: send() took n bytes from
\* offset sent; they reach whatever connection the descriptor number refers to
\* now; return once everything is sent
WriteSendBytes(t) ==
  /\ wr[t].st = "loop"
  /\ ~PeerGone(FdConn(SendFd(t)))
  /\ \E n \in SendSizes(wr[t].size - wr[t].sent) :
       LET c == FdConn(SendFd(t))
           sent == AfterSend(wr[t].sent, n)
           dst == IF wr[t].sent = 0 THEN c ELSE wr[t].dst
           good == IF c = dst /\ wr[t].sent = wr[t].good
                   THEN wr[t].good + n ELSE wr[t].good
           done == SendDone(sent, wr[t].size)
       IN /\ conns' = Received(c, n)
          /\ wr' = [wr EXCEPT ![t].sent = sent, ![t].good = good,
                              ![t].dst = dst,
                              ![t].st = IF done THEN "ret" ELSE "loop",
                              ![t].ret = IF done THEN "ok" ELSE "none"]
  /\ UNCHANGED <<uds_mode, mVars, tsVars, fdtab, pc, new_client_fd, enc,
                 stop_conn, enc_session>>
  /\ SinkOnly

\* send() fails. Write line 161-174: TsOutputSink::HandleClientDisconnect
\* (line 264-281: close(client_fd_), client_fd_ = -1, client_connected_ =
\* false), return false. writeAllBlocking line 825-826:
\* client_connected_.store(false); close(sock)
WriteSendError(t) ==
  /\ wr[t].st = "loop"
  /\ PeerGone(FdConn(SendFd(t)))
  /\ fdtab' = FdtabClose(SendFd(t))
  /\ conns' = ConnsClose(SendFd(t))
  /\ IF uds_mode
     THEN /\ ts_client_fd_' = NoFd
          /\ ts_client_connected_' = FALSE
          /\ wr' = [wr EXCEPT ![t].st = "ret", ![t].ret = "fail"]
          /\ UNCHANGED client_connected_
     ELSE /\ client_connected_' = FALSE
          /\ wr' = [wr EXCEPT ![t].st = "fail2"]
          /\ UNCHANGED <<ts_client_fd_, ts_client_connected_>>
  /\ UNCHANGED <<uds_mode, internal_state_, running_, stop_requested_,
                 listen_fd_, client_fd_, ts_running_, ts_stop_requested_,
                 ts_listen_fd_, pc, new_client_fd, enc, stop_conn, enc_session>>
  /\ SinkOnly

\* writeAllBlocking line 827-828: client_fd_ = -1; return -1
WriteFailStore(t) ==
  /\ wr[t].st = "fail2"
  /\ client_fd_' = NoFd
  /\ wr' = [wr EXCEPT ![t].st = "ret", ![t].ret = "fail"]
  /\ UNCHANGED <<uds_mode, internal_state_, running_, stop_requested_,
                 listen_fd_, client_connected_, tsVars, osVars, pc,
                 new_client_fd, enc, stop_conn, enc_session>>
  /\ SinkOnly

\* MpegTSPlayoutSink::stop, line 161-173: running_ and not yet Stopped =>
\* take state_mutex_, stop_requested_.store(true)
StopBegin ==
  /\ pc["stop"] = "idle"
  /\ running_
  /\ internal_state_ # "Stopped"
  /\ stop_requested_' = TRUE
  /\ pc' = [pc EXCEPT !["stop"] = "join"]
  /\ UNCHANGED <<uds_mode, internal_state_, running_, listen_fd_, client_fd_,
                 client_connected_, tsVars, osVars, new_client_fd, enc, wr,
                 stop_conn, enc_session>>
  /\ SinkOnly

\* stop, line 176-186: join the worker thread and the accept thread, then
\* enter encoder_pipeline_->close()
StopJoin ==
  /\ pc["stop"] = "join"
  /\ pc["worker"] = "done"
  /\ pc["accept"] \in {"done", "off"}
  /\ enc' = [enc EXCEPT !["stop"] = "close"]
  /\ pc' = [pc EXCEPT !["stop"] = "in_close"]
  /\ UNCHANGED <<uds_mode, mVars, tsVars, osVars, new_client_fd, wr,
                 stop_conn, enc_session>>
  /\ SinkOnly

\* the client the sink holds as connected: TsOutputSink's in UDS mode
CurrentClient ==
  IF uds_mode
  THEN IF ts_client_connected_ THEN FdConn(ts_client_fd_) ELSE NoConn
  ELSE IF client_connected_ THEN FdConn(client_fd_) ELSE NoConn

\* stop, line 186-193: encoder_pipeline_->close() returns; the null packet is
\* written only if client_connected_ && client_fd_ >= 0
StopEncCloseEnd ==
  /\ pc["stop"] = "in_close"
  /\ wr["stop"].st \in {"none", "ret"}
  /\ enc' = [enc EXCEPT !["stop"] = "none"]
  /\ stop_conn' = CurrentClient
  /\ enc_session' = NoConn
  /\ IF client_connected_ /\ client_fd_ # NoFd
     THEN /\ wr' = [wr EXCEPT !["stop"] = [NoWrite EXCEPT !.st = "pad"]]
          /\ pc' = [pc EXCEPT !["stop"] = "pad"]
     ELSE /\ wr' = [wr EXCEPT !["stop"] = NoWrite]
          /\ pc' = [pc EXCEPT !["stop"] = "cleanup"]
  /\ UNCHANGED <<uds_mode, mVars, tsVars, osVars, new_client_fd>>
  /\ SinkOnly

\* stop, line 203-218: send(client_fd_, null_packet + sent, 188 - sent); a
\* positive result advances sent, the loop ends at 188 bytes (EAGAIN, the
\* retried case, does not occur on the blocking client socket)
StopPadSend ==
  /\ pc["stop"] = "pad"
  /\ ~PeerGone(FdConn(client_fd_))
  /\ \E n \in SendSizes(kTsPacketSize - wr["stop"].sent) :
       LET sent == AfterSend(wr["stop"].sent, n)
           done == SendDone(sent, kTsPacketSize)
       IN /\ conns' = ReceivedNull(FdConn(client_fd_), n)
          /\ wr' = [wr EXCEPT !["stop"] =
                      IF done THEN NoWrite
                      ELSE [wr["stop"] EXCEPT !.sent = sent]]
          /\ pc' = [pc EXCEPT !["stop"] = IF done THEN "cleanup" ELSE "pad"]
  /\ UNCHANGED <<uds_mode, mVars, tsVars, fdtab, new_client_fd, enc,
                 stop_conn, enc_session>>
  /\ SinkOnly

\* stop, line 206-214: send() returns -1 with an errno other than EAGAIN (the
\* peer is gone, or EINTR): break and continue with the cleanup
StopPadBreak ==
  /\ pc["stop"] = "pad"
  /\ wr' = [wr EXCEPT !["stop"] = NoWrite]
  /\ pc' = [pc EXCEPT !["stop"] = "cleanup"]
  /\ UNCHANGED <<uds_mode, mVars, tsVars, osVars, new_client_fd, enc,
                 stop_conn, enc_session>>
  /\ SinkOnly

\* stop, line 222-230. UDS mode: TsOutputSink::Stop line 129-139 sets its
\* stop_requested_ and joins its accept thread. TCP mode: cleanupSocket (line
\* 585-603) closes client_fd_ and listen_fd_; running_ = false; Stopped
StopCleanup ==
  /\ pc["stop"] = "cleanup"
  /\ IF uds_mode
     THEN /\ ts_stop_requested_' = TRUE
          /\ pc' = [pc EXCEPT !["stop"] = "ts_join"]
          /\ UNCHANGED <<internal_state_, running_, listen_fd_, client_fd_,
                         client_connected_, fdtab, conns>>
     ELSE /\ fdtab' = FdtabClose(client_fd_)
          /\ conns' = ConnsClose(client_fd_)
          /\ client_fd_' = NoFd
          /\ listen_fd_' = NoFd
          /\ client_connected_' = FALSE
          /\ running_' = FALSE
          /\ internal_state_' = "Stopped"
          /\ pc' = [pc EXCEPT !["stop"] = "done"]
          /\ UNCHANGED ts_stop_requested_
  /\ UNCHANGED <<uds_mode, stop_requested_, ts_running_, ts_listen_fd_,
                 ts_client_fd_, ts_client_connected_, new_client_fd, enc, wr,
                 stop_conn, enc_session>>
  /\ SinkOnly

\* TsOutputSink::Stop line 141-143 after the join: CleanupSocket (line
\* 283-307) closes client_fd_ and listen_fd_; then stop line 224-230:
\* ts_output_sink_.reset(), running_ = false, Stopped
StopTsCleanup ==
  /\ pc["stop"] = "ts_join"
  /\ pc["ts_accept"] = "done"
  /\ fdtab' = FdtabClose(ts_client_fd_)
  /\ conns' = ConnsClose(ts_client_fd_)
  /\ ts_client_fd_' = NoFd
  /\ ts_listen_fd_' = NoFd
  /\ ts_client_connected_' = FALSE
  /\ ts_running_' = FALSE
  /\ running_' = FALSE
  /\ internal_state_' = "Stopped"
  /\ pc' = [pc EXCEPT !["stop"] = "done"]
  /\ UNCHANGED <<uds_mode, stop_requested_, listen_fd_, client_fd_,
                 client_connected_, ts_stop_requested_, new_client_fd, enc,
                 wr, stop_conn, enc_session>>
  /\ SinkOnly

NextSink ==
  \/ SinkStart
  \/ PeerConnect
  \/ \E c \in ClientIds : PeerClose(c)
  \/ \E t \in Threads : ThreadExit(t)
  \/ \E t \in Acceptors : TryAcceptCheck(t)
  \/ \E t \in Acceptors : TryAcceptAccept(t)
  \/ \E t \in Acceptors : TryAcceptStore(t)
  \/ \E t \in Acceptors : EncInitEnd(t)
  \/ \E t \in Acceptors : HandleClientDisconnect(t)
  \/ WorkerUdsPoll
  \/ WorkerFrame
  \/ EncodeEnd
  \/ TsAcceptCheck
  \/ TsAcceptAccept
  \/ \E t \in EncoderCallers : WriteEnter(t)
  \/ \E t \in EncoderCallers : WriteSendEintr(t)
  \/ \E t \in EncoderCallers : WriteSendBytes(t)
  \/ \E t \in EncoderCallers : WriteSendError(t)
  \/ \E t \in EncoderCallers : WriteFailStore(t)
  \/ StopBegin
  \/ StopJoin
  \/ StopEncCloseEnd
  \/ StopPadSend
  \/ StopPadBreak
  \/ StopCleanup
  \/ StopTsCleanup

(***************************************************************************)
(* Pacing loop of the MPEG-TS sink.                                        *)
(***************************************************************************)
\* workerLoop line 260: a frame later than this is dropped
kMaxLateToleranceUs == 50000

\* workerLoop line 261: a frame earlier than this is waited for
kSoftWaitThresholdUs == 5000

\* workerLoop line 262: the wait ends this long before the deadline
kWaitFudgeUs == 500

\* workerLoop line 373: a first frame older than this is taken to have a
\* timebase of its own
kSameTimebaseThresholdUs == 1000000

\* FrameProducer.cpp line 23 and 123: a new producer numbers its frames from
\* stub_pts_counter_(0)
kRestartPts == 0

\* distance between the PTS of two frames of one producer at 30 fps
FramePeriodUs == 33333

\* station time when the sink is started
StationEpoch == kSameTimebaseThresholdUs

\* the PTS a first frame can carry: as old as the timebase threshold, just
\* inside it, at the late tolerance, just past it, and ahead of station time
FirstPts ==
  {StationEpoch - kSameTimebaseThresholdUs,
   StationEpoch - kSameTimebaseThresholdUs + 1,
   StationEpoch - kMaxLateToleranceUs,
   StationEpoch - kMaxLateToleranceUs - 1,
   StationEpoch + EarlyLeadUs}

\* the station times the clock is read at, around the deadline of the frame
\* after the first
Times ==
  {StationEpoch,
   StationEpoch + FramePeriodUs - kSoftWaitThresholdUs - 1,
   StationEpoch + FramePeriodUs - kSoftWaitThresholdUs,
   StationEpoch + FramePeriodUs - kWaitFudgeUs,
   StationEpoch + FramePeriodUs + kMaxLateToleranceUs,
   StationEpoch + FramePeriodUs + kMaxLateToleranceUs + 1}

NoDecision == [kind |-> "none", gap |-> 0, id |-> 0]

\* workerLoop line 360-361 and 392-393: the deadline of a frame and how late
\* the frame is
TargetTime(start, pts) == start + pts

GapUs(now, target) == now - target

\* a first frame exactly at the late tolerance counts as stale
IsStaleAtTolerance(age) ==
  age > 0 /\ age < kSameTimebaseThresholdUs /\ age >= kMaxLateToleranceUs

\* workerLoop line 374: the first frame is stale
IsStale(age) ==
  age > 0 /\ age < kSameTimebaseThresholdUs /\ age > kMaxLateToleranceUs

\* the start time is the station time the first frame is seen at
AnchorAtNow(now, pts) == now

\* workerLoop line 390: the start time the first frame binds
AnchorTime(now, pts) == now - pts

\* workerLoop line 396: the frame is early
IsEarly(gap) == gap < -kSoftWaitThresholdUs

\* a frame exactly at the late tolerance counts as late
IsLateAtTolerance(gap) == gap >= kMaxLateToleranceUs

\* workerLoop line 411: the frame is late
IsLate(gap) == gap > kMaxLateToleranceUs

\* workerLoop line 400: the station time the worker waits for
WaitTarget(target) == target - kWaitFudgeUs

\* FrameRingBuffer::Peek, workerLoop line 326: the oldest frame of a ring that
\* is not empty, left where it is
Peek(q) == Head(q)

\* a pop that leaves the oldest frame in the ring
AfterPopKeeps(q) == q

\* FrameRingBuffer::Pop: the ring without its oldest frame
AfterPop(q) == Tail(q)

\* processFrame line 482-499: the frame is encoded when a client is connected
AfterProcess(e, f) == IF client_connected_ THEN Append(e, f) ELSE e

\* the sink's variables the pacing loop does not touch
sinkRest == <<uds_mode, listen_fd_, client_fd_, tsVars, osVars, thVars,
              stop_conn, enc_session>>

InitPacing ==
  /\ now_utc_us = StationEpoch
  /\ frame_buffer_ = <<>>
  /\ pushed_frames = <<>>
  /\ w_pc = "off"
  /\ w_now = 0
  /\ wait_until = 0
  /\ sink_start_time_recorded_ = FALSE
  /\ sink_start_time_utc_us_ = 0
  /\ frames_sent_ = 0
  /\ frames_dropped_ = 0
  /\ late_frames_ = 0
  /\ late_frame_drops_ = 0
  /\ emitted = <<>>
  /\ encoded = <<>>
  /\ last = NoDecision
  /\ after_anchor = {}

\* a step of the pacing loop leaves the ring model, the control plane and the
\* sockets alone
PaceKeeps ==
  UNCHANGED <<ringVars, engVars, sinkRest, chanVars, tickVars, lifeVars>>

\* ... and the encoded-packet queue as well, but for the steps that drain or
\* clear it
PaceOnly == PaceKeeps /\ UNCHANGED queueVars

\* what has happened since the start time was bound
Since(e) == IF sink_start_time_recorded_ THEN after_anchor \cup {e}
            ELSE after_anchor

\* MpegTSPlayoutSink::start, line 94-159, as far as the pacing loop sees it:
\* the start time is unset and the worker thread runs
PaceStart ==
  /\ ~running_
  /\ internal_state_ = "Idle"
  /\ internal_state_' = "Running"
  /\ running_' = TRUE
  /\ stop_requested_' = FALSE
  /\ sink_start_time_recorded_' = FALSE
  /\ w_pc' = "top"
  /\ UNCHANGED <<client_connected_, now_utc_us, frame_buffer_, pushed_frames,
                 w_now, wait_until, sink_start_time_utc_us_, frames_sent_,
                 frames_dropped_, late_frames_, late_frame_drops_, emitted,
                 encoded, last, after_anchor>>
  /\ PaceOnly

\* the master clock moves on while the sink runs
ClockAdvance ==
  /\ running_
  /\ \E t \in Times : t > now_utc_us /\ now_utc_us' = t
  /\ UNCHANGED <<running_, stop_requested_, internal_state_,
                 client_connected_, frame_buffer_, pushed_frames, w_pc, w_now,
                 wait_until, sink_start_time_recorded_,
                 sink_start_time_utc_us_, frames_sent_, frames_dropped_,
                 late_frames_, late_frame_drops_, emitted, encoded, last,
                 after_anchor>>
  /\ PaceOnly

\* the frame a producer pushes with the given PTS
NewFrame(p, g) == [id |-> Len(pushed_frames) + 1, pts |-> p, gen |-> g]

\* the live producer pushes its next frame (FrameProducer::ProduceStubFrame
\* line 118-159: nothing is pushed into a full ring)
PacePush ==
  /\ Len(pushed_frames) < MaxPacedFrames
  /\ Len(frame_buffer_) < PaceDepth
  /\ \E p \in IF pushed_frames = <<>> THEN FirstPts
              ELSE {pushed_frames[Len(pushed_frames)].pts + FramePeriodUs} :
       LET g == IF pushed_frames = <<>> THEN 0
                ELSE pushed_frames[Len(pushed_frames)].gen
           f == NewFrame(p, g)
       IN /\ frame_buffer_' = Append(frame_buffer_, f)
          /\ pushed_frames' = Append(pushed_frames, f)
  /\ UNCHANGED <<running_, stop_requested_, internal_state_,
                 client_connected_, now_utc_us, w_pc, w_now, wait_until,
                 sink_start_time_recorded_, sink_start_time_utc_us_,
                 frames_sent_, frames_dropped_, late_frames_,
                 late_frame_drops_, emitted, encoded, last, after_anchor>>
  /\ PaceOnly

\* the live producer is replaced (PlayoutEngine::SwitchToLive) and the new
\* one pushes its first frame, numbered from its own counter
PaceSwitchPush ==
  /\ pushed_frames # <<>>
  /\ pushed_frames[Len(pushed_frames)].gen < MaxSwitches
  /\ Len(pushed_frames) < MaxPacedFrames
  /\ Len(frame_buffer_) < PaceDepth
  /\ LET f == NewFrame(kRestartPts, pushed_frames[Len(pushed_frames)].gen + 1)
     IN /\ frame_buffer_' = Append(frame_buffer_, f)
        /\ pushed_frames' = Append(pushed_frames, f)
  /\ after_anchor' = Since("switch")
  /\ UNCHANGED <<running_, stop_requested_, internal_state_,
                 client_connected_, now_utc_us, w_pc, w_now, wait_until,
                 sink_start_time_recorded_, sink_start_time_utc_us_,
                 frames_sent_, frames_dropped_, late_frames_,
                 late_frame_drops_, emitted, encoded, last>>
  /\ PaceOnly

\* a consumer attaches or detaches (tryAcceptClient line 692-693,
\* handleClientDisconnect line 723-730, workerLoop line 284 and 294); the
\* packets queued for a consumer that left are discarded
PaceClientToggle ==
  /\ running_
  /\ client_connected_' = ~client_connected_
  /\ after_anchor' = Since("client")
  /\ output_queue_' = IF client_connected_ THEN <<>> ELSE output_queue_
  /\ UNCHANGED <<running_, stop_requested_, internal_state_, now_utc_us,
                 frame_buffer_, pushed_frames, w_pc, w_now, wait_until,
                 sink_start_time_recorded_, sink_start_time_utc_us_,
                 frames_sent_, frames_dropped_, late_frames_,
                 late_frame_drops_, emitted, encoded, last>>
  /\ UNCHANGED <<packets_dropped_, packets_queued, max_output_queue_packets,
                 output_queue_high_water_mark>>
  /\ PaceKeeps

\* drainOutputQueue, line 839-863: the packets at the front are sent until a
\* send fails; q without the k packets that were sent
Drained(q, k) == SubSeq(q, k + 1, Len(q))

\* workerLoop line 317, with a test that lets the loop encode one packet
\* beyond the mark
SkipsEncodingLate(size, mark) == size > mark + 1

\* workerLoop line 317: queue_size >= config_.output_queue_high_water_mark
SkipsEncoding(size, mark) == size >= mark

\* the iteration ended at line 317-319 without looking at the ring
SkippedIteration == [kind |-> "skip", gap |-> 0, id |-> 0]

\* workerLoop line 273-320: the loop condition, now_us =
\* master_clock_->now_utc_us(), drainOutputQueue() and the test of the queue
\* size against the high-water mark, which ends the iteration (sleep, then
\* continue) or lets it go on to Peek
PaceTop ==
  /\ w_pc = "top"
  /\ IF stop_requested_ \/ ~running_
     THEN /\ w_pc' = "done"
          /\ UNCHANGED <<w_now, output_queue_, last>>
     ELSE /\ w_now' = now_utc_us
          /\ \E k \in 0 .. Len(output_queue_) :
               /\ client_connected_ \/ k = 0
               /\ output_queue_' = Drained(output_queue_, k)
          /\ IF SkipsEncoding(Len(output_queue_'),
                              output_queue_high_water_mark)
             THEN /\ w_pc' = "top"
                  /\ last' = SkippedIteration
             ELSE /\ w_pc' = "decide"
                  /\ UNCHANGED last
  /\ UNCHANGED <<running_, stop_requested_, internal_state_,
                 client_connected_, now_utc_us, frame_buffer_, pushed_frames,
                 wait_until, sink_start_time_recorded_,
                 sink_start_time_utc_us_, frames_sent_, frames_dropped_,
                 late_frames_, late_frame_drops_, emitted, encoded,
                 after_anchor>>
  /\ UNCHANGED <<packets_dropped_, packets_queued, max_output_queue_packets,
                 output_queue_high_water_mark>>
  /\ PaceKeeps

\* the worker's bookkeeping when it drops the frame at the head of the ring
\* (workerLoop line 376-383 and 414-425)
DropHead ==
  /\ frame_buffer_' = AfterPop(frame_buffer_)
  /\ late_frame_drops_' = late_frame_drops_ + 1
  /\ frames_dropped_' = frames_dropped_ + 1
  /\ late_frames_' = late_frames_ + 1
  /\ w_pc' = "top"
  /\ UNCHANGED <<frames_sent_, emitted, encoded, wait_until>>

\* the worker's bookkeeping when it emits the frame at the head of the ring
\* (workerLoop line 430-449)
EmitHead(gap) ==
  /\ frame_buffer_' = AfterPop(frame_buffer_)
  /\ late_frames_' = IF gap > 0 THEN late_frames_ + 1 ELSE late_frames_
  /\ emitted' = Append(emitted, Peek(frame_buffer_))
  /\ encoded' = AfterProcess(encoded, Peek(frame_buffer_))
  /\ frames_sent_' = frames_sent_ + 1
  /\ w_pc' = "top"
  /\ UNCHANGED <<late_frame_drops_, frames_dropped_, wait_until>>

\* workerLoop line 396-449: wait for an early frame, drop a late one, emit
\* the others
Paced(start, gap) ==
  LET f == Peek(frame_buffer_)
  IN IF IsEarly(gap)
     THEN /\ wait_until' = WaitTarget(TargetTime(start, f.pts))
          /\ w_pc' = "wait"
          /\ last' = [kind |-> "wait", gap |-> gap, id |-> f.id]
          /\ UNCHANGED <<frame_buffer_, frames_sent_, frames_dropped_,
                         late_frames_, late_frame_drops_, emitted, encoded>>
     ELSE IF IsLate(gap)
     THEN /\ DropHead
          /\ last' = [kind |-> "late_drop", gap |-> gap, id |-> f.id]
     ELSE /\ EmitHead(gap)
          /\ last' = [kind |-> IF sink_start_time_recorded_ THEN "emit"
                               ELSE "anchor",
                      gap |-> IF sink_start_time_recorded_ THEN gap
                              ELSE w_now - f.pts,
                      id |-> f.id]

\* workerLoop line 326-453, one iteration after the clock was read: Peek;
\* nothing there => next iteration; start time bound => pace the frame by
\* its deadline; else drop a stale first frame or bind the start time to
\* this frame and pace it with a gap of 0
PaceDecide ==
  /\ w_pc = "decide"
  /\ IF frame_buffer_ = <<>>
     THEN /\ w_pc' = "top"
          /\ UNCHANGED <<frame_buffer_, wait_until, sink_start_time_recorded_,
                         sink_start_time_utc_us_, frames_sent_,
                         frames_dropped_, late_frames_, late_frame_drops_,
                         emitted, encoded, last, after_anchor>>
     ELSE LET f == Peek(frame_buffer_)
          IN IF sink_start_time_recorded_
             THEN /\ Paced(sink_start_time_utc_us_,
                           GapUs(w_now, TargetTime(sink_start_time_utc_us_,
                                                   f.pts)))
                  /\ after_anchor' = Since("frame")
                  /\ UNCHANGED <<sink_start_time_recorded_,
                                 sink_start_time_utc_us_>>
             ELSE IF IsStale(w_now - f.pts)
             THEN /\ DropHead
                  /\ last' = [kind |-> "stale_drop", gap |-> w_now - f.pts,
                              id |-> f.id]
                  /\ UNCHANGED <<sink_start_time_recorded_,
                                 sink_start_time_utc_us_, after_anchor>>
             ELSE /\ sink_start_time_utc_us_' = AnchorTime(w_now, f.pts)
                  /\ sink_start_time_recorded_' = TRUE
                  /\ Paced(AnchorTime(w_now, f.pts), 0)
                  /\ UNCHANGED after_anchor
  /\ UNCHANGED <<running_, stop_requested_, internal_state_,
                 client_connected_, now_utc_us, pushed_frames, w_now>>
  /\ PaceOnly

\* the clock's wait_until_station_us(target): blocks the caller until
\* station time >= target. workerLoop line 401-408 passes it no flag and
\* reads stop_requested_ once it has returned.
WaitOver(target) == now_utc_us >= target

PaceWaitReturn ==
  /\ w_pc = "wait"
  /\ WaitOver(wait_until)
  /\ w_pc' = IF stop_requested_ \/ ~running_ THEN "done" ELSE "top"
  /\ UNCHANGED <<running_, stop_requested_, internal_state_,
                 client_connected_, now_utc_us, frame_buffer_, pushed_frames,
                 w_now, wait_until, sink_start_time_recorded_,
                 sink_start_time_utc_us_, frames_sent_, frames_dropped_,
                 late_frames_, late_frame_drops_, emitted, encoded, last,
                 after_anchor>>
  /\ PaceOnly

\* MpegTSPlayoutSink::stop, line 161-178: stop_requested_.store(true), then
\* worker_thread_.join()
PaceStopRequest ==
  /\ running_
  /\ ~stop_requested_
  /\ stop_requested_' = TRUE
  /\ UNCHANGED <<running_, internal_state_, client_connected_, paceVars>>
  /\ PaceOnly

\* MpegTSPlayoutSink::stop, line 178-256: the join returns once the worker
\* has left its loop; running_ = false, the state is Stopped, cleanupSocket
\* (line 585-603) drops the queued packets and stop() returns
PaceStopJoin ==
  /\ running_
  /\ stop_requested_
  /\ w_pc = "done"
  /\ running_' = FALSE
  /\ internal_state_' = "Stopped"
  /\ client_connected_' = FALSE
  /\ w_pc' = "off"
  /\ output_queue_' = <<>>
  /\ UNCHANGED <<stop_requested_, now_utc_us, frame_buffer_, pushed_frames,
                 w_now, wait_until, sink_start_time_recorded_,
                 sink_start_time_utc_us_, frames_sent_, frames_dropped_,
                 late_frames_, late_frame_drops_, emitted, encoded, last,
                 after_anchor>>
  /\ UNCHANGED <<packets_dropped_, packets_queued, max_output_queue_packets,
                 output_queue_high_water_mark>>
  /\ PaceKeeps

NextPacing ==
  \/ PaceStart
  \/ ClockAdvance
  \/ PacePush
  \/ PaceSwitchPush
  \/ PaceClientToggle
  \/ PaceTop
  \/ PaceDecide
  \/ PaceWaitReturn
  \/ PaceStopRequest
  \/ PaceStopJoin

(***************************************************************************)
(* Channel table: the request handlers of PlayoutEngine (and StartChannel  *)
(* and StopChannel of PlayoutControlImpl) over several channels, with the  *)
(* telemetry store of MetricsExporter.                                     *)
(***************************************************************************)
\* the channel ids requests name (those of BC_004_ChannelErrorIsolation)
ChannelIds == {220, 221}

\* the threads that serve requests
Callers == 1 .. MaxCallers

\* channels_mutex_ is not held
NoCaller == 0

\* the control plane the process hosts: PlayoutEngine or PlayoutControlImpl
Apis == {"engine", "service"}

Ops == {"StartChannel", "StopChannel", "LoadPreview", "SwitchToLive",
        "UpdatePlan"}

\* minimum ring depth StartChannel waits for
kReadyDepth == 3

\* no entry for the id in channels_ / active_channels_
NoChannel == [present |-> FALSE, plan_handle |-> "none", live |-> "none",
              preview |-> "none", depth |-> 0]

\* no record for the id in channel_metrics_
NoMetrics == "none"

\* EngineResult(success, message) and the response of an RPC
Result(ok, why) == [ok |-> ok, why |-> why]

NoResult == Result(FALSE, "none")

\* mutant: an id that is not in the map is answered with success
NotFoundSucceeds == Result(TRUE, "not_found")

\* EngineResult(false, "Channel N not found") and gRPC status NOT_FOUND
NotFound == Result(FALSE, "not_found")

\* a request thread outside every handler
IdleCall == [op |-> "none", ch |-> 220, pc |-> "idle", elapsed |-> FALSE,
             state |-> NoChannel]

\* the step before neither returned from a handler nor called the exporter
NoEvent == [op |-> "none", ch |-> 0, ret |-> NoResult]

\* handler op for channel ch returned r
Event(op, ch, r) == [op |-> op, ch |-> ch, ret |-> r]

\* the depth at which the wait of StartChannel ends: kReadyDepth frames in
\* the ring (PlayoutEngine), the first decoded frame (PlayoutControlImpl)
ReadyDepth == IF api = "engine" THEN kReadyDepth ELSE 1

\* the handler positions in which the thread sleeps, polls or waits
WaitPcs == {"wait_depth", "wait_ready", "poll_live", "poll_preview",
            "poll_switch"}

\* FrameProducer::IsRunning: the producer's thread has not left its loop
IsRunning(p) == p \in {"running", "tearing"}

\* request_teardown(timeout): the producer is asked to stop; its thread has
\* to observe the request
RequestTeardown(p) == IF p = "running" THEN "tearing" ELSE p

\* FrameProducer::Stop: the thread is joined
Stopped(p) == IF p = "none" THEN "none" ELSE "stopped"

\* a thread started for the channel state st has not terminated
HasThread(st) == IsRunning(st.live) \/ IsRunning(st.preview)

\* mutant: the record is written over every channel's record
UpdateEveryChannelMetrics(M, ch, m) == [k \in DOMAIN M |-> m]

\* MetricsExporter::UpdateChannelMetrics: channel_metrics_[channel_id] =
\* metrics
UpdateChannelMetrics(M, ch, m) == [M EXCEPT ![ch] = m]

\* MetricsExporter::RemoveChannel: channel_metrics_.erase(channel_id)
RemoveChannel(M, ch) == [M EXCEPT ![ch] = NoMetrics]

\* channels_[channel_id] = std::move(state)
Store(T, ch, st) == [T EXCEPT ![ch] = st]

\* channels_.erase(it)
Erase(T, ch) == [T EXCEPT ![ch] = NoChannel]

\* mutant: the producer thread of the abandoned ChannelState keeps running
AfterStartTimeoutLeaks(st) == st

\* the local ChannelState of a StartChannel that returns at its timeout: the
\* unique_ptr goes out of scope, ~FrameProducer stops and joins the thread
AfterStartTimeout(st) == NoChannel

InitChannels ==
  /\ api \in Apis
  /\ channel_table = [ch \in ChannelIds |-> NoChannel]
  /\ channel_metrics_ = [ch \in ChannelIds |-> NoMetrics]
  /\ channels_mutex_ = NoCaller
  /\ call = [c \in Callers |-> IdleCall]
  /\ last_event = NoEvent

\* a step of the channel table leaves the other models alone
ChanOnly ==
  UNCHANGED <<ringVars, engVars, sinkVars, paceVars, tickVars, queueVars,
              lifeVars>>

\* a step inside a handler, or of a producer thread, that returns nothing
ChanStep == last_event' = NoEvent /\ UNCHANGED api /\ ChanOnly

\* request thread c returns r from handler op; st is what is left of the
\* handler's local ChannelState
Returned(c, op, r, st) ==
  /\ call' = [call EXCEPT ![c] = [IdleCall EXCEPT !.state = st]]
  /\ last_event' = Event(op, call[c].ch, r)
  /\ UNCHANGED api
  /\ ChanOnly

\* request thread c goes on inside handler op, at position at with the local
\* ChannelState st
Goes(c, op, at, st) ==
  /\ call' = [call EXCEPT ![c].op = op, ![c].pc = at, ![c].elapsed = FALSE,
                          ![c].state = st]
  /\ ChanStep

\* request thread c is about to lock channels_mutex_ in a handler of control
\* plane a, and the mutex is free
Entering(c, a) ==
  /\ call[c].pc = "lock"
  /\ channels_mutex_ = NoCaller
  /\ api = a

\* a request for channel ch arrives on thread c
CallBegin(c, ch) ==
  /\ call[c].pc = "idle"
  /\ engine_dtor = "alive"
  /\ call' = [call EXCEPT ![c] = [IdleCall EXCEPT !.ch = ch, !.pc = "lock"]]
  /\ UNCHANGED <<channel_table, channel_metrics_, channels_mutex_>>
  /\ ChanStep

\* PlayoutEngine::StartChannel, line 98-150: lock_guard; an id found in
\* channels_ returns "already started"; else the ChannelState is created,
\* its producer and renderer are started and the depth wait begins
StartChannelEnter(c, plan) ==
  /\ Entering(c, "engine")
  /\ IF channel_table[call[c].ch].present
     THEN /\ Returned(c, "StartChannel", Result(TRUE, "already_started"),
                      NoChannel)
          /\ UNCHANGED channels_mutex_
     ELSE /\ Goes(c, "StartChannel", "wait_depth",
                  [present |-> TRUE, plan_handle |-> plan,
                   live |-> "running", preview |-> "none", depth |-> 0])
          /\ channels_mutex_' = c
  /\ UNCHANGED <<channel_table, channel_metrics_>>

\* the producer started by a StartChannel in progress pushes a frame
ProducerFills(c) ==
  /\ call[c].pc \in {"wait_depth", "wait_ready"}
  /\ HasThread(call[c].state)
  /\ call[c].state.depth < ReadyDepth
  /\ call' = [call EXCEPT ![c].state.depth = @ + 1]
  /\ UNCHANGED <<channel_table, channel_metrics_, channels_mutex_>>
  /\ ChanStep

\* the deadline of the wait thread c is in passes (kReadyTimeout, the 5 s of
\* wait_for, the teardown timeout)
DeadlinePasses(c) ==
  /\ call[c].pc \in WaitPcs
  /\ ~call[c].elapsed
  /\ call' = [call EXCEPT ![c].elapsed = TRUE]
  /\ UNCHANGED <<channel_table, channel_metrics_, channels_mutex_>>
  /\ ChanStep

\* PlayoutEngine::StartChannel, line 152-177: the loop ends when Size()
\* reaches kReadyDepth (telemetry READY, the state is stored) or when
\* kReadyTimeout has passed (telemetry BUFFERING, failure); until then the
\* thread sleeps 10 ms at a time
StartChannelPoll(c) ==
  /\ call[c].pc = "wait_depth"
  /\ LET st == call[c].state
         ch == call[c].ch
     IN  IF st.depth >= kReadyDepth
         THEN /\ channel_metrics_' =
                   UpdateChannelMetrics(channel_metrics_, ch, "READY")
              /\ channel_table' = Store(channel_table, ch, st)
              /\ Returned(c, "StartChannel", Result(TRUE, "started"),
                          NoChannel)
         ELSE /\ call[c].elapsed
              /\ channel_metrics_' =
                   UpdateChannelMetrics(channel_metrics_, ch, "BUFFERING")
              /\ UNCHANGED channel_table
              /\ Returned(c, "StartChannel", Result(FALSE, "timeout"),
                          AfterStartTimeout(st))
  /\ channels_mutex_' = NoCaller

\* PlayoutEngine::StopChannel, line 183-209: lock_guard; an id not in
\* channels_ returns "not found"; else teardown of the live producer is
\* requested and the wait for it begins
StopChannelEnter(c) ==
  /\ Entering(c, "engine")
  /\ LET ch == call[c].ch
     IN  IF ~channel_table[ch].present
         THEN /\ Returned(c, "StopChannel", NotFound,
                          NoChannel)
              /\ UNCHANGED <<channel_table, channels_mutex_>>
         ELSE /\ channel_table' =
                   [channel_table EXCEPT ![ch].live = RequestTeardown(@)]
              /\ Goes(c, "StopChannel", "poll_live", NoChannel)
              /\ channels_mutex_' = c
  /\ UNCHANGED channel_metrics_

\* PlayoutEngine::StopChannel, line 226-244: the ring is drained, telemetry
\* STOPPED is submitted, the channel is erased
StopChannelFinish(c) ==
  /\ channel_metrics_' =
       UpdateChannelMetrics(channel_metrics_, call[c].ch, "STOPPED")
  /\ channel_table' = Erase(channel_table, call[c].ch)
  /\ Returned(c, "StopChannel", Result(TRUE, "stopped"), NoChannel)
  /\ channels_mutex_' = NoCaller

\* PlayoutEngine::StopChannel, line 211-219: while (IsRunning()) sleep 10 ms;
\* then Stop() joins the live producer and teardown of the preview producer,
\* if there is one, is requested
StopChannelPollLive(c) ==
  /\ call[c].pc = "poll_live"
  /\ LET ch == call[c].ch
     IN  /\ ~IsRunning(channel_table[ch].live)
         /\ IF channel_table[ch].preview # "none"
            THEN /\ channel_table' =
                      [channel_table EXCEPT
                         ![ch].live = Stopped(@),
                         ![ch].preview = RequestTeardown(@)]
                 /\ Goes(c, "StopChannel", "poll_preview", NoChannel)
                 /\ UNCHANGED <<channel_metrics_, channels_mutex_>>
            ELSE StopChannelFinish(c)

\* PlayoutEngine::StopChannel, line 219-224: the same wait for the preview
\* producer
StopChannelPollPreview(c) ==
  /\ call[c].pc = "poll_preview"
  /\ ~IsRunning(channel_table[call[c].ch].preview)
  /\ StopChannelFinish(c)

\* PlayoutEngine::LoadPreview, line 250-290: not found => failure; else a
\* new FrameProducer replaces preview_producer and is started
LoadPreviewCall(c) ==
  /\ Entering(c, "engine")
  /\ LET ch == call[c].ch
     IN  IF ~channel_table[ch].present
         THEN /\ Returned(c, "LoadPreview", NotFound,
                          NoChannel)
              /\ UNCHANGED channel_table
         ELSE /\ channel_table' =
                   [channel_table EXCEPT ![ch].preview = "running"]
              /\ Returned(c, "LoadPreview", Result(TRUE, "preview_loaded"),
                          NoChannel)
  /\ UNCHANGED <<channel_metrics_, channels_mutex_>>

\* PlayoutEngine::SwitchToLive, line 292-312: not found or no preview
\* producer => failure; else teardown of the live producer is requested and
\* the wait for it begins
SwitchToLiveEnter(c) ==
  /\ Entering(c, "engine")
  /\ LET ch == call[c].ch
     IN  IF ~channel_table[ch].present
         THEN /\ Returned(c, "SwitchToLive", NotFound,
                          NoChannel)
              /\ UNCHANGED <<channel_table, channels_mutex_>>
         ELSE IF channel_table[ch].preview = "none"
         THEN /\ Returned(c, "SwitchToLive", Result(FALSE, "no_preview"),
                          NoChannel)
              /\ UNCHANGED <<channel_table, channels_mutex_>>
         ELSE /\ channel_table' =
                   [channel_table EXCEPT ![ch].live = RequestTeardown(@)]
              /\ Goes(c, "SwitchToLive", "poll_switch", NoChannel)
              /\ channels_mutex_' = c
  /\ UNCHANGED channel_metrics_

\* PlayoutEngine::SwitchToLive, line 313-329: while (IsRunning()) sleep
\* 10 ms; then Stop(), and the preview producer becomes the live producer
SwitchToLivePoll(c) ==
  /\ call[c].pc = "poll_switch"
  /\ LET ch == call[c].ch
     IN  /\ ~IsRunning(channel_table[ch].live)
         /\ channel_table' =
              [channel_table EXCEPT ![ch].live = channel_table[ch].preview,
                                    ![ch].preview = "none"]
  /\ Returned(c, "SwitchToLive", Result(TRUE, "switched"), NoChannel)
  /\ channels_mutex_' = NoCaller
  /\ UNCHANGED channel_metrics_

\* PlayoutEngine::UpdatePlan, line 335-360: not found => failure; else only
\* the plan handle changes
UpdatePlanCall(c, plan) ==
  /\ Entering(c, "engine")
  /\ LET ch == call[c].ch
     IN  IF ~channel_table[ch].present
         THEN /\ Returned(c, "UpdatePlan", NotFound,
                          NoChannel)
              /\ UNCHANGED channel_table
         ELSE /\ channel_table' =
                   [channel_table EXCEPT ![ch].plan_handle = plan]
              /\ Returned(c, "UpdatePlan", Result(TRUE, "plan_updated"),
                          NoChannel)
  /\ UNCHANGED <<channel_metrics_, channels_mutex_>>

\* the thread of a producer that was asked to tear down observes the request
\* and leaves its loop
ObserveTeardown(ch) ==
  /\ channel_table[ch].present
  /\ \/ /\ channel_table[ch].live = "tearing"
        /\ channel_table' = [channel_table EXCEPT ![ch].live = "exited"]
     \/ /\ channel_table[ch].preview = "tearing"
        /\ channel_table' = [channel_table EXCEPT ![ch].preview = "exited"]
  /\ UNCHANGED <<channel_metrics_, channels_mutex_, call>>
  /\ ChanStep

\* PlayoutControlImpl::StartChannel, line 133-250: lock_guard; an id found
\* in active_channels_ is refused with ALREADY_EXISTS; else the worker is
\* created, the first asset is loaded into the preview slot (its producer
\* starts) and the wait for shadow-decode readiness begins
ServiceStartEnter(c, plan) ==
  /\ Entering(c, "service")
  /\ IF channel_table[call[c].ch].present
     THEN /\ Returned(c, "StartChannel", Result(FALSE, "already_active"),
                      NoChannel)
          /\ UNCHANGED channels_mutex_
     ELSE /\ Goes(c, "StartChannel", "wait_ready",
                  [present |-> TRUE, plan_handle |-> plan, live |-> "none",
                   preview |-> "running", depth |-> 0])
          /\ channels_mutex_' = c
  /\ UNCHANGED <<channel_table, channel_metrics_>>

\* PlayoutControlImpl::StartChannel, line 250-453: wait_for returns when the
\* producer has decoded its first frame or after 5 s; not ready =>
\* DEADLINE_EXCEEDED and the worker is destroyed; ready => the preview slot
\* becomes the live slot, telemetry is submitted with the state of the
\* control machine and the worker is stored
ServiceStartWait(c) ==
  /\ call[c].pc = "wait_ready"
  /\ LET st == call[c].state
         ch == call[c].ch
     IN  IF st.depth >= 1
         THEN /\ \E m \in {"BUFFERING", "READY"} :
                   channel_metrics_' =
                     UpdateChannelMetrics(channel_metrics_, ch, m)
              /\ channel_table' =
                   Store(channel_table, ch,
                         [st EXCEPT !.live = st.preview, !.preview = "none"])
              /\ Returned(c, "StartChannel", Result(TRUE, "started"),
                          NoChannel)
         ELSE /\ call[c].elapsed
              /\ UNCHANGED <<channel_table, channel_metrics_>>
              /\ Returned(c, "StartChannel", Result(FALSE, "timeout"),
                          AfterStartTimeout(st))
  /\ channels_mutex_' = NoCaller

\* PlayoutControlImpl::StopChannelShared -> StopChannelLocked, line 904-1071:
\* not found => NOT_FOUND; else the slot producers are stopped with waits of
\* at most 50 times 10 ms, telemetry STOPPED is submitted and removed, the
\* worker is erased
ServiceStopChannel(c) ==
  /\ Entering(c, "service")
  /\ LET ch == call[c].ch
     IN  IF ~channel_table[ch].present
         THEN /\ Returned(c, "StopChannel", NotFound,
                          NoChannel)
              /\ UNCHANGED <<channel_table, channel_metrics_>>
         ELSE /\ channel_metrics_' =
                   RemoveChannel(
                     UpdateChannelMetrics(channel_metrics_, ch, "STOPPED"),
                     ch)
              /\ channel_table' = Erase(channel_table, ch)
              /\ Returned(c, "StopChannel", Result(TRUE, "stopped"),
                          NoChannel)
  /\ UNCHANGED channels_mutex_

\* MetricsExporter::UpdateChannelMetrics called with an error record
\* (BC_004_ChannelErrorIsolation)
ExporterUpdate(ch) ==
  /\ channel_metrics_' =
       UpdateChannelMetrics(channel_metrics_, ch, "ERROR_STATE")
  /\ last_event' = Event("UpdateChannelMetrics", ch, NoResult)
  /\ UNCHANGED <<api, channel_table, channels_mutex_, call>>
  /\ ChanOnly

\* MetricsExporter::RemoveChannel called from outside the handlers
ExporterRemove(ch) ==
  /\ channel_metrics_' = RemoveChannel(channel_metrics_, ch)
  /\ last_event' = Event("RemoveChannel", ch, NoResult)
  /\ UNCHANGED <<api, channel_table, channels_mutex_, call>>
  /\ ChanOnly

\* a step of request thread c inside a handler
HandlerStep(c) ==
  \/ \E plan \in PlanHandles : StartChannelEnter(c, plan)
  \/ StartChannelPoll(c)
  \/ StopChannelEnter(c)
  \/ StopChannelPollLive(c)
  \/ StopChannelPollPreview(c)
  \/ LoadPreviewCall(c)
  \/ SwitchToLiveEnter(c)
  \/ SwitchToLivePoll(c)
  \/ \E plan \in PlanHandles : UpdatePlanCall(c, plan)
  \/ \E plan \in PlanHandles : ServiceStartEnter(c, plan)
  \/ ServiceStartWait(c)
  \/ ServiceStopChannel(c)

\* the thread that destroys the engine, as a holder of channels_mutex_
Destructor == MaxCallers + 1

\* what a build makes of a lock_guard on a std::mutex the thread already
\* owns, which the standard leaves undefined: the thread deadlocks on
\* itself, or lock() throws and the exception leaves the destructor
RelockOutcomes == {"blocked", "terminated"}

InitDestroy == engine_dtor = "alive"

\* PlayoutEngine::~PlayoutEngine, line 87-96: lock_guard on channels_mutex_,
\* StopChannel(id) for every channel, channels_.clear(). StopChannel starts
\* with a lock_guard on the same mutex (line 184), so with a channel in the
\* map the first call never gets past it; with none the map is cleared and
\* the destructor returns
DestroyEngine ==
  /\ api = "engine"
  /\ engine_dtor = "alive"
  /\ \A c \in Callers : call[c].pc = "idle"
  /\ channels_mutex_ = NoCaller
  /\ IF \E ch \in ChannelIds : channel_table[ch].present
     THEN /\ engine_dtor' \in RelockOutcomes
          /\ channels_mutex_' = Destructor
          /\ UNCHANGED channel_table
     ELSE /\ engine_dtor' = "done"
          /\ UNCHANGED <<channels_mutex_, channel_table>>
  /\ last_event' = NoEvent
  /\ UNCHANGED <<api, channel_metrics_, call>>
  /\ UNCHANGED <<ringVars, engVars, sinkVars, paceVars, tickVars, queueVars,
                 tdVars, lateVars>>

NextChannels ==
  \/ DestroyEngine
  \/ \E c \in Callers, ch \in ChannelIds : CallBegin(c, ch)
  \/ \E c \in Callers : HandlerStep(c)
  \/ \E c \in Callers : ProducerFills(c)
  \/ \E c \in Callers : DeadlinePasses(c)
  \/ \E ch \in ChannelIds : ObserveTeardown(ch)
  \/ \E ch \in ChannelIds : ExporterUpdate(ch)
  \/ \E ch \in ChannelIds : ExporterRemove(ch)

(***************************************************************************)
(* Back-pressure: the tick callback of src/src/playout_service.cpp and the *)
(* encoded-packet queue of MpegTSPlayoutSink.                              *)
(***************************************************************************)
\* the values Size() returns to the tick
Depths == 0 .. RingN
\* the values a caller can give the two limits of the queue
QueueLimits == 0 .. MaxQueuePackets
\* MpegTSPlayoutSinkConfig.hpp line 32-33: the mark lies below the maximum
DefaultQueueLimit == MaxQueuePackets
DefaultHighWaterMark == MaxQueuePackets - 1

\* tick callback line 363 and 382: the two conditions of a tick
UnderrunAt(depth) == depth = 0
OverrunAt(depth, capacity) == capacity > 0 /\ depth + 1 >= capacity

\* the depths of the last two ticks
LastTwo(ds) == IF Len(ds) > 2 THEN Tail(ds) ELSE ds

InitBackpressure ==
  /\ underrun_active = FALSE
  /\ overrun_active = FALSE
  /\ tick_depths = <<>>
  /\ tick_events = {}
  /\ output_queue_ = <<>>
  /\ packets_dropped_ = 0
  /\ packets_queued = 0
  /\ max_output_queue_packets \in QueueLimits
  /\ output_queue_high_water_mark \in QueueLimits

QueueOnly ==
  UNCHANGED <<ringVars, engVars, sinkVars, paceVars, chanVars, lifeVars>>

\* the tick callback, playout_service.cpp line 352-407: depth = Size(),
\* capacity = Capacity(); each flag is exchanged for its condition, an event
\* is reported when a flag rises and the result says cleared when one falls
TickCallback(depth) ==
  LET capacity == capacity_
      under == UnderrunAt(depth)
      over == OverrunAt(depth, capacity)
  IN /\ underrun_active' = under
     /\ overrun_active' = over
     /\ tick_events' =
          (IF under /\ ~underrun_active THEN {"Underrun"} ELSE {})
          \cup (IF over /\ ~overrun_active THEN {"Overrun"} ELSE {})
          \cup (IF (~under /\ underrun_active) \/ (~over /\ overrun_active)
                THEN {"BackpressureCleared"} ELSE {})
     /\ tick_depths' = LastTwo(Append(tick_depths, depth))
     /\ UNCHANGED queueVars
     /\ QueueOnly

\* queueEncodedPacket line 869-871: the oldest packet goes when the queue
\* holds the maximum and holds anything at all
DropsOldest(q, max) == Len(q) >= max /\ q # <<>>

\* queueEncodedPacket line 869-887: the queue after the call
AfterQueue(q, max, pkt) ==
  Append(IF DropsOldest(q, max) THEN Tail(q) ELSE q, pkt)

\* MpegTSPlayoutSink::queueEncodedPacket, line 865-888; packets are numbered
\* in the order of the calls
QueueEncodedPacket ==
  /\ packets_queued < MaxPackets
  /\ packets_queued' = packets_queued + 1
  /\ output_queue_' = AfterQueue(output_queue_, max_output_queue_packets,
                                 packets_queued + 1)
  /\ packets_dropped_' =
       IF DropsOldest(output_queue_, max_output_queue_packets)
       THEN packets_dropped_ + 1 ELSE packets_dropped_
  /\ UNCHANGED <<max_output_queue_packets, output_queue_high_water_mark,
                 tickVars>>
  /\ QueueOnly

\* the channel ticks while the sink is started and stopped, its consumer
\* comes and goes and packets are queued and drained
NextBackpressure ==
  \/ \E depth \in Depths : TickCallback(depth)
  \/ QueueEncodedPacket
  \/ PaceStart
  \/ PaceClientToggle
  \/ PaceTop
  \/ PaceStopRequest
  \/ PaceStopJoin

\* the pacing loop with packets in its queue, at one instant of the station
\* clock
NextQueue ==
  \/ QueueEncodedPacket
  \/ PaceStart
  \/ PacePush
  \/ PaceClientToggle
  \/ PaceTop
  \/ PaceDecide
  \/ PaceStopRequest
  \/ PaceStopJoin

(***************************************************************************)
(* Teardown of a channel in the service: src/src/playout_service.cpp,      *)
(* RequestTeardown, MonitorTeardown, FinalizeTeardown, StopChannelShared,  *)
(* StopChannelLocked and ~PlayoutControlImpl.                              *)
(***************************************************************************)
\* the threads that take channels_mutex_ here
RequestThread == "request"
DestructorThread == "destructor"
NoThread == "none"

\* a ChannelWorker that is not in active_channels_
NoWorker == [present |-> FALSE, producer_running |-> FALSE,
             teardown_requested |-> FALSE, teardown_thread_active |-> FALSE,
             teardown_thread |-> "none", expired |-> FALSE]

\* PlayoutControlImpl::StartChannel line 300-330: the worker as it is put
\* into active_channels_
NewWorker == [present |-> TRUE, producer_running |-> TRUE,
              teardown_requested |-> FALSE, teardown_thread_active |-> FALSE,
              teardown_thread |-> "none", expired |-> FALSE]

\* a request thread outside StopChannel
IdleStop == [pc |-> "idle", ch |-> 220]

InitTeardown ==
  /\ td_worker = [ch \in ChannelIds |-> NoWorker]
  /\ td_mutex = NoThread
  /\ monitor_pc = [ch \in ChannelIds |-> "off"]
  /\ stop_pc = [c \in Callers |-> IdleStop]
  /\ dtor_pc = IdleStop
  /\ td_last = "none"

TeardownOnly ==
  UNCHANGED <<ringVars, engVars, sinkVars, paceVars, chanVars, tickVars,
              queueVars, otherLife>>

\* the service object is alive
ServiceAlive == dtor_pc.pc = "idle"

\* a channel is started (the handler itself is modelled in SpecChannels)
TdStartChannel(ch) ==
  /\ ServiceAlive
  /\ td_mutex = NoThread
  /\ ~td_worker[ch].present
  /\ monitor_pc[ch] \in {"off", "exited"}
  /\ td_worker' = [td_worker EXCEPT ![ch] = NewWorker]
  /\ monitor_pc' = [monitor_pc EXCEPT ![ch] = "off"]
  /\ td_last' = "started"
  /\ UNCHANGED <<td_mutex, stop_pc, dtor_pc>>
  /\ TeardownOnly

\* PlayoutControlImpl::RequestTeardown, line 814-846, under channels_mutex_:
\* unknown channel or teardown in flight => return; else mark the worker,
\* producer->RequestTeardown(timeout) and start the monitor thread
TdRequestTeardown(ch) ==
  /\ ServiceAlive
  /\ td_mutex = NoThread
  /\ td_worker[ch].present
  /\ ~td_worker[ch].teardown_requested
  /\ td_worker' = [td_worker EXCEPT ![ch].teardown_requested = TRUE,
                                    ![ch].teardown_thread_active = TRUE,
                                    ![ch].teardown_thread = "joinable"]
  /\ monitor_pc' = [monitor_pc EXCEPT ![ch] = "lock"]
  /\ td_last' = "requested"
  /\ UNCHANGED <<td_mutex, stop_pc, dtor_pc>>
  /\ TeardownOnly

\* the producer's thread ends (teardown honoured, or end of stream)
TdProducerExits(ch) ==
  /\ td_worker[ch].present
  /\ td_worker[ch].producer_running
  /\ td_worker' = [td_worker EXCEPT ![ch].producer_running = FALSE]
  /\ td_last' = "producer_exit"
  /\ UNCHANGED <<td_mutex, monitor_pc, stop_pc, dtor_pc>>
  /\ TeardownOnly

\* worker->teardown_timeout (3000 ms) has passed since teardown_started
TdTimeoutPasses(ch) ==
  /\ td_worker[ch].present
  /\ td_worker[ch].teardown_requested
  /\ ~td_worker[ch].expired
  /\ td_worker' = [td_worker EXCEPT ![ch].expired = TRUE]
  /\ td_last' = "timeout"
  /\ UNCHANGED <<td_mutex, monitor_pc, stop_pc, dtor_pc>>
  /\ TeardownOnly

\* StopChannelLocked line 947-1058 once no join is in the way: producers,
\* renderer and loop are stopped, STOPPED is submitted and the worker erased
Erased(W, ch) == [W EXCEPT ![ch] = NoWorker]

\* MonitorTeardown line 850-882, one pass of the loop under the mutex: the
\* channel is gone or no teardown is requested => the thread returns; the
\* producer stopped => finalize; the timeout passed => ForceStop, finalize;
\* else sleep 50 ms
TdMonitorPass(ch) ==
  /\ monitor_pc[ch] = "lock"
  /\ td_mutex = NoThread
  /\ LET w == td_worker[ch]
         to(p) == monitor_pc' = [monitor_pc EXCEPT ![ch] = p]
     IN IF ~w.present \/ ~w.teardown_requested
        THEN to("exited") /\ UNCHANGED td_worker
        ELSE IF ~w.producer_running
        THEN to("finalize") /\ UNCHANGED td_worker
        ELSE IF w.expired
        THEN /\ to("finalize")
             /\ td_worker' = [td_worker EXCEPT ![ch].producer_running = FALSE]
        ELSE to("sleep") /\ UNCHANGED td_worker
  /\ td_last' = "monitor"
  /\ UNCHANGED <<td_mutex, stop_pc, dtor_pc>>
  /\ TeardownOnly

\* MonitorTeardown line 890: sleep_for(50 ms) is over
TdMonitorWake(ch) ==
  /\ monitor_pc[ch] = "sleep"
  /\ monitor_pc' = [monitor_pc EXCEPT ![ch] = "lock"]
  /\ td_last' = "monitor"
  /\ UNCHANGED <<td_worker, td_mutex, stop_pc, dtor_pc>>
  /\ TeardownOnly

\* FinalizeTeardown line 893-902 -> StopChannelShared -> StopChannelLocked
\* on the monitor thread: it takes the mutex, finds its own id in
\* teardown_thread, detaches, stops the channel and returns
TdMonitorFinalize(ch) ==
  /\ monitor_pc[ch] = "finalize"
  /\ td_mutex = NoThread
  /\ td_worker' = Erased(td_worker, ch)
  /\ monitor_pc' = [monitor_pc EXCEPT ![ch] = "exited"]
  /\ td_last' = IF td_worker[ch].present THEN "finalized" ELSE "not_found"
  /\ UNCHANGED <<td_mutex, stop_pc, dtor_pc>>
  /\ TeardownOnly

\* StopChannelLocked line 931-932 and ~PlayoutControlImpl line 114-115: the
\* caller has to join the monitor thread of the channel
MustJoin(w) == w.teardown_thread_active /\ w.teardown_thread = "joinable"

\* PlayoutControlImpl::StopChannel line 666-674 -> StopChannelShared line
\* 904-911 -> StopChannelLocked line 913-1058 on a request thread: take the
\* mutex; channel not found => return; a monitor thread to join => join it
\* with the mutex held, and go on when join() has returned, which it does
\* once the monitor thread has left MonitorTeardown; then stop the channel
TdStopChannel(c, ch) ==
  /\ IF stop_pc[c].pc = "idle"
     THEN /\ ServiceAlive
          /\ td_mutex = NoThread
          /\ IF ~td_worker[ch].present
             THEN /\ td_last' = "not_found"
                  /\ UNCHANGED <<td_worker, td_mutex, stop_pc>>
             ELSE IF MustJoin(td_worker[ch]) /\ monitor_pc[ch] # "exited"
             THEN /\ td_mutex' = RequestThread
                  /\ stop_pc' = [stop_pc EXCEPT
                                   ![c] = [pc |-> "join", ch |-> ch]]
                  /\ td_last' = "joining"
                  /\ UNCHANGED td_worker
             ELSE /\ td_worker' = Erased(td_worker, ch)
                  /\ td_last' = "stopped"
                  /\ UNCHANGED <<td_mutex, stop_pc>>
     ELSE /\ stop_pc[c].ch = ch
          /\ monitor_pc[ch] = "exited"
          /\ td_worker' = Erased(td_worker, ch)
          /\ td_mutex' = NoThread
          /\ stop_pc' = [stop_pc EXCEPT ![c] = IdleStop]
          /\ td_last' = "stopped"
  /\ UNCHANGED <<monitor_pc, dtor_pc>>
  /\ TeardownOnly

\* the channels whose monitor thread the destructor has to join
ToJoin == {ch \in ChannelIds : td_worker[ch].present /\ MustJoin(td_worker[ch])}

\* the monitor threads the destructor's join() has to wait for
Blocking == {ch \in ToJoin : monitor_pc[ch] # "exited"}

\* ~PlayoutControlImpl line 92-131, the loop over active_channels_ with the
\* mutex held from line 97 on: each channel is stopped, after its monitor
\* thread was joined if it has one (line 114-118); the loop waits in the
\* first join() that does not return, goes on when it has returned, and
\* clears the map at the end
TdDestroy ==
  /\ \A c \in Callers : stop_pc[c].pc = "idle"
  /\ dtor_pc.pc # "done"
  /\ IF dtor_pc.pc = "idle"
     THEN td_mutex = NoThread
     ELSE monitor_pc[dtor_pc.ch] = "exited"
  /\ IF Blocking = {}
     THEN /\ td_worker' = [ch \in ChannelIds |-> NoWorker]
          /\ td_mutex' = NoThread
          /\ dtor_pc' = [pc |-> "done", ch |-> 220]
          /\ td_last' = "destroyed"
     ELSE /\ \E ch \in Blocking : dtor_pc' = [pc |-> "join", ch |-> ch]
          /\ td_mutex' = DestructorThread
          /\ td_last' = "destroying"
          /\ UNCHANGED td_worker
  /\ UNCHANGED <<monitor_pc, stop_pc>>
  /\ TeardownOnly

NextTeardown ==
  \/ \E ch \in ChannelIds : TdStartChannel(ch)
  \/ \E ch \in ChannelIds : TdRequestTeardown(ch)
  \/ \E ch \in ChannelIds : TdProducerExits(ch)
  \/ \E ch \in ChannelIds : TdTimeoutPasses(ch)
  \/ \E ch \in ChannelIds : TdMonitorPass(ch)
  \/ \E ch \in ChannelIds : TdMonitorWake(ch)
  \/ \E ch \in ChannelIds : TdMonitorFinalize(ch)
  \/ \E c \in Callers, ch \in ChannelIds : TdStopChannel(c, ch)
  \/ TdDestroy

(***************************************************************************)
(* Readiness of the first asset in the service's StartChannel:             *)
(* src/src/playout_service.cpp line 188-281. The producer that signals it  *)
(* (VideoFileProducer) is not under src/: at some time it becomes ready,    *)
(* which its IsShadowDecodeReady() reports from then on, and at some time  *)
(* it calls the event callback StartChannel gave to the factory.           *)
(***************************************************************************)
CallerThread == "caller"

InitReadiness ==
  /\ sc_pc = "idle"
  /\ sc_channel = 0
  /\ shadow_decode_ready = FALSE
  /\ shadow_decode_mutex = NoThread
  /\ producer_shadow_ready = FALSE
  /\ ev_pc = "none"
  /\ wait_timed_out = FALSE
  /\ sc_result = "none"
  /\ ready_in_time = FALSE
  /\ fired_during = "none"

ReadinessOnly ==
  UNCHANGED <<ringVars, engVars, sinkVars, paceVars, chanVars, tickVars,
              queueVars, tdVars, engine_dtor, fpVars, txVars>>

\* StartChannel(channel_id), line 189-229: the flag, the condition variable
\* and the mutex are made, the factory with the event callback is set, the
\* flag is reset
ScBegin ==
  /\ sc_pc = "idle"
  /\ sc_pc' = "load"
  /\ sc_channel' \in ChannelIds
  /\ shadow_decode_ready' = FALSE
  /\ UNCHANGED <<shadow_decode_mutex, producer_shadow_ready, ev_pc,
                 wait_timed_out, sc_result, ready_in_time, fired_during>>
  /\ ReadinessOnly

\* loadPreviewAsset, line 231: the factory makes the producer and its worker
\* starts in shadow mode
ScLoadStarts ==
  /\ sc_pc = "load"
  /\ sc_pc' = "loading"
  /\ ev_pc' = "decoding"
  /\ UNCHANGED <<shadow_decode_ready, shadow_decode_mutex,
                 producer_shadow_ready, wait_timed_out, sc_result,
                 ready_in_time, fired_during>>
  /\ UNCHANGED sc_channel
  /\ ReadinessOnly

\* loadPreviewAsset returns, line 231-236: false ends the call with INTERNAL
ScLoadReturns ==
  /\ sc_pc = "loading"
  /\ \E loaded \in BOOLEAN :
       IF loaded
       THEN /\ sc_pc' = "loaded"
            /\ UNCHANGED sc_result
       ELSE /\ sc_pc' = "done"
            /\ sc_result' = "load_failed"
  /\ UNCHANGED <<shadow_decode_ready, shadow_decode_mutex,
                 producer_shadow_ready, ev_pc, wait_timed_out, ready_in_time,
                 fired_during>>
  /\ UNCHANGED sc_channel
  /\ ReadinessOnly

\* line 239-249: a producer that is ready already sets the flag
ScCheck ==
  /\ sc_pc = "loaded"
  /\ sc_pc' = "lock"
  /\ shadow_decode_ready' = (shadow_decode_ready \/ producer_shadow_ready)
  /\ UNCHANGED <<shadow_decode_mutex, producer_shadow_ready, ev_pc,
                 wait_timed_out, sc_result, ready_in_time, fired_during>>
  /\ UNCHANGED sc_channel
  /\ ReadinessOnly

\* line 254-258: unique_lock and the first test of wait_for's predicate; a
\* set flag ends the wait, a clear one releases the mutex and blocks
ScWaitFor ==
  /\ sc_pc = "lock"
  /\ shadow_decode_mutex = NoThread
  /\ IF shadow_decode_ready
     THEN /\ sc_pc' = "done"
          /\ sc_result' = "ready"
     ELSE /\ sc_pc' = "waiting"
          /\ UNCHANGED sc_result
  /\ UNCHANGED <<shadow_decode_ready, shadow_decode_mutex,
                 producer_shadow_ready, ev_pc, wait_timed_out, ready_in_time,
                 fired_during>>
  /\ UNCHANGED sc_channel
  /\ ReadinessOnly

\* the 5 s of line 255 pass while StartChannel is blocked in wait_for
ScTimeout ==
  /\ sc_pc = "waiting"
  /\ ~wait_timed_out
  /\ wait_timed_out' = TRUE
  /\ sc_pc' = "woken"
  /\ UNCHANGED <<shadow_decode_ready, shadow_decode_mutex,
                 producer_shadow_ready, ev_pc, sc_result, ready_in_time,
                 fired_during>>
  /\ UNCHANGED sc_channel
  /\ ReadinessOnly

\* std::condition_variable may wake a waiter without a notification
ScSpuriousWake ==
  /\ sc_pc = "waiting"
  /\ sc_pc' = "woken"
  /\ UNCHANGED <<shadow_decode_ready, shadow_decode_mutex,
                 producer_shadow_ready, ev_pc, wait_timed_out, sc_result,
                 ready_in_time, fired_during>>
  /\ UNCHANGED sc_channel
  /\ ReadinessOnly

\* wait_for after a wake-up, line 256-258: the mutex is taken again and the
\* predicate tested; clear and in time it blocks again, clear and timed out
\* it returns false with the mutex held
ScWake ==
  /\ sc_pc = "woken"
  /\ shadow_decode_mutex = NoThread
  /\ IF shadow_decode_ready
     THEN /\ sc_pc' = "done"
          /\ sc_result' = "ready"
          /\ UNCHANGED shadow_decode_mutex
     ELSE IF wait_timed_out
          THEN /\ sc_pc' = "fallback"
               /\ shadow_decode_mutex' = CallerThread
               /\ UNCHANGED sc_result
          ELSE /\ sc_pc' = "waiting"
               /\ UNCHANGED <<sc_result, shadow_decode_mutex>>
  /\ UNCHANGED <<shadow_decode_ready, producer_shadow_ready, ev_pc,
                 wait_timed_out, ready_in_time, fired_during>>
  /\ UNCHANGED sc_channel
  /\ ReadinessOnly

\* a mutant of the next definition: the wait is not followed by a second look
NeverAtTimeout == FALSE

\* line 262-272: after wait_for returned false the producer in the preview
\* slot is asked once more
ReadyAtTimeout == producer_shadow_ready

\* line 260-280: the second look decides between going on and
\* DEADLINE_EXCEEDED; the block ends and the mutex is released
ScFallback ==
  /\ sc_pc = "fallback"
  /\ sc_pc' = "done"
  /\ sc_result' = IF ReadyAtTimeout THEN "ready" ELSE "timeout"
  /\ shadow_decode_mutex' = NoThread
  /\ UNCHANGED <<shadow_decode_ready, producer_shadow_ready, ev_pc,
                 wait_timed_out, ready_in_time, fired_during>>
  /\ UNCHANGED sc_channel
  /\ ReadinessOnly

\* the producer's worker has primed the decoder: is_shadow_ready is true
\* from now on
PrBecomesReady ==
  /\ ev_pc # "none"
  /\ ~producer_shadow_ready
  /\ producer_shadow_ready' = TRUE
  /\ ready_in_time' = ~wait_timed_out
  /\ UNCHANGED <<sc_pc, shadow_decode_ready, shadow_decode_mutex, ev_pc,
                 wait_timed_out, sc_result, fired_during>>
  /\ UNCHANGED sc_channel
  /\ ReadinessOnly

\* the producer calls the event callback with "ShadowDecodeReady", before or
\* after its IsShadowDecodeReady() has turned true
PrEmit ==
  /\ ev_pc = "decoding"
  /\ ev_pc' = "emitting"
  /\ UNCHANGED <<sc_pc, shadow_decode_ready, shadow_decode_mutex,
                 producer_shadow_ready, wait_timed_out, sc_result,
                 ready_in_time, fired_during>>
  /\ UNCHANGED sc_channel
  /\ ReadinessOnly

\* the callback, line 207-216: lock_guard on the mutex, the flag is set,
\* notify_all wakes StartChannel if it is blocked in wait_for
PrCallback ==
  /\ ev_pc = "emitting"
  /\ shadow_decode_mutex = NoThread
  /\ ev_pc' = "emitted"
  /\ shadow_decode_ready' = TRUE
  /\ sc_pc' = IF sc_pc = "waiting" THEN "woken" ELSE sc_pc
  /\ fired_during' = IF wait_timed_out THEN "late" ELSE sc_pc
  /\ UNCHANGED <<shadow_decode_mutex, producer_shadow_ready, wait_timed_out,
                 sc_result, ready_in_time>>
  /\ UNCHANGED sc_channel
  /\ ReadinessOnly

NextReadiness ==
  \/ ScBegin
  \/ ScLoadStarts
  \/ ScLoadReturns
  \/ ScCheck
  \/ ScWaitFor
  \/ ScTimeout
  \/ ScSpuriousWake
  \/ ScWake
  \/ ScFallback
  \/ PrBecomesReady
  \/ PrEmit
  \/ PrCallback

(***************************************************************************)
(* One FrameProducer and its decode thread: src/src/decode/FrameProducer   *)
(* .cpp. Start() may be called from several threads at once; Stop() and    *)
(* the destructor run while no other call is in progress, as at all their  *)
(* call sites, which hold channels_mutex_.                                 *)
(***************************************************************************)
NoCall == [op |-> "none", pc |-> "idle"]
NoReturn == [op |-> "none", ret |-> "none", was_running |-> FALSE]

InitProducer ==
  /\ fp_object = "alive"
  /\ fp_running_ = FALSE
  /\ fp_stop_requested_ = FALSE
  /\ producer_thread_ = 0
  /\ fp_threads = <<>>
  /\ fp_depth = 0
  /\ fp_call = [c \in Callers |-> NoCall]
  /\ fp_last = NoReturn

ProducerOnly ==
  UNCHANGED <<ringVars, engVars, sinkVars, paceVars, chanVars, tickVars,
              queueVars, tdVars, engine_dtor, rdyVars, txVars>>

\* the decode threads that are executing ProduceLoop
DecodeThreads == {t \in DOMAIN fp_threads : fp_threads[t] = "running"}

\* the std::thread objects that were started and not joined
Unjoined == {t \in DOMAIN fp_threads : fp_threads[t] # "joined"}

\* a call of Stop() or of the destructor is in progress
Stopping == \E c \in Callers : fp_call[c].op \in {"Stop", "Destroy"}

\* a mutant of the next definition: Start() does not look at running_
StartAdmittedAlways(running) == TRUE

\* Start() line 31-34: compare_exchange_strong(expected = false, true)
\* succeeds when running_ was false
StartAdmitted(running) == ~running

\* Start() line 30-34: the exchange on running_; a failed one returns false
FpStartCas(c) ==
  /\ fp_object = "alive"
  /\ fp_call[c] = NoCall
  /\ ~Stopping
  /\ Len(fp_threads) < MaxStarts
  /\ IF StartAdmitted(fp_running_)
     THEN /\ fp_running_' = TRUE
          /\ fp_call' = [fp_call EXCEPT ![c] = [op |-> "Start", pc |-> "spawn"]]
          /\ UNCHANGED fp_last
     ELSE /\ fp_last' = [op |-> "Start", ret |-> "false",
                         was_running |-> fp_running_]
          /\ UNCHANGED <<fp_running_, fp_call>>
  /\ UNCHANGED <<fp_object, fp_stop_requested_, producer_thread_, fp_threads,
                 fp_depth>>
  /\ ProducerOnly

\* Start() line 36-40: stop_requested_ is cleared and producer_thread_ is
\* given a new std::thread running ProduceLoop; replacing a std::thread that
\* is still joinable calls std::terminate
FpStartSpawn(c) ==
  /\ fp_call[c] = [op |-> "Start", pc |-> "spawn"]
  /\ fp_stop_requested_' = FALSE
  /\ fp_threads' = Append(fp_threads, "running")
  /\ producer_thread_' = Len(fp_threads) + 1
  /\ fp_object' = IF producer_thread_ \in Unjoined THEN "terminated"
                  ELSE fp_object
  /\ fp_call' = [fp_call EXCEPT ![c] = NoCall]
  /\ fp_last' = [op |-> "Start", ret |-> "true", was_running |-> FALSE]
  /\ UNCHANGED <<fp_running_, fp_depth>>
  /\ ProducerOnly

\* a mutant of the next definition: the loop does not look at stop_requested_
LoopContinuesAlways(stop_requested) == TRUE

\* ProduceLoop line 91: while (!stop_requested_.load())
LoopContinues(stop_requested) == ~stop_requested

\* one turn of ProduceLoop, line 91-110, with ProduceStubFrame line 118-159
\* or ProduceRealFrame line 161-185: the frame is pushed, or the ring is
\* full and the thread backs off for 10 ms, or the decoder is at the end of
\* the file and the thread asks itself to stop; a turn that finds
\* stop_requested_ set leaves the loop and the thread ends (line 112-116)
FpTurn(t) ==
  /\ fp_object # "terminated"
  /\ t \in DecodeThreads
  /\ IF LoopContinues(fp_stop_requested_)
     THEN /\ \E outcome \in {"pushed", "eof"} :
               IF outcome = "eof"
               THEN /\ fp_stop_requested_' = TRUE
                    /\ UNCHANGED fp_depth
               ELSE /\ fp_depth' = IF fp_depth < RingN THEN fp_depth + 1
                                   ELSE fp_depth
                    /\ UNCHANGED fp_stop_requested_
          /\ UNCHANGED fp_threads
     ELSE /\ fp_threads' = [fp_threads EXCEPT ![t] = "exited"]
          /\ UNCHANGED <<fp_stop_requested_, fp_depth>>
  /\ UNCHANGED <<fp_object, fp_running_, producer_thread_, fp_call, fp_last>>
  /\ ProducerOnly

\* the consumer takes a frame from the ring
FpConsume ==
  /\ fp_object # "terminated"
  /\ fp_depth > 0
  /\ fp_depth' = fp_depth - 1
  /\ UNCHANGED <<fp_object, fp_running_, fp_stop_requested_, producer_thread_,
                 fp_threads, fp_call, fp_last>>
  /\ ProducerOnly

\* Stop() line 43-49, called directly or by ~FrameProducer (line 26-28):
\* nothing to do when running_ is false, else stop_requested_ is set
FpStopBegin(c, op) ==
  /\ fp_object = "alive"
  /\ \A d \in Callers : fp_call[d] = NoCall
  /\ IF fp_running_
     THEN /\ fp_stop_requested_' = TRUE
          /\ fp_call' = [fp_call EXCEPT ![c] = [op |-> op, pc |-> "join"]]
          /\ UNCHANGED <<fp_last, fp_object>>
     ELSE /\ fp_last' = [op |-> op, ret |-> "noop", was_running |-> FALSE]
          /\ fp_object' = IF op = "Destroy" THEN "destroyed" ELSE fp_object
          /\ UNCHANGED <<fp_stop_requested_, fp_call>>
  /\ UNCHANGED <<fp_running_, producer_thread_, fp_threads, fp_depth>>
  /\ ProducerOnly

\* Stop() line 51-57: join() returns once the thread has ended, then
\* running_ is cleared
FpStopJoin(c) ==
  /\ fp_call[c].pc = "join"
  /\ producer_thread_ \in Unjoined => fp_threads[producer_thread_] = "exited"
  /\ fp_threads' = IF producer_thread_ \in Unjoined
                   THEN [fp_threads EXCEPT ![producer_thread_] = "joined"]
                   ELSE fp_threads
  /\ fp_running_' = FALSE
  /\ fp_call' = [fp_call EXCEPT ![c] = NoCall]
  /\ fp_last' = [op |-> fp_call[c].op, ret |-> "stopped",
                 was_running |-> TRUE]
  /\ fp_object' = IF fp_call[c].op = "Destroy" THEN "destroyed"
                  ELSE fp_object
  /\ UNCHANGED <<fp_stop_requested_, producer_thread_, fp_depth>>
  /\ ProducerOnly

NextProducer ==
  \/ \E c \in Callers : FpStartCas(c)
  \/ \E c \in Callers : FpStartSpawn(c)
  \/ \E t \in 1 .. MaxStarts : FpTurn(t)
  \/ FpConsume
  \/ \E c \in Callers : FpStopBegin(c, "Stop")
  \/ \E c \in Callers : FpStopBegin(c, "Destroy")
  \/ \E c \in Callers : FpStopJoin(c)

(***************************************************************************)
(* Draining the encoded-packet queue to the client: drainOutputQueue and   *)
(* sendToSocket of src/src/playout_sinks/mpegts/MpegTSPlayoutSink.cpp.     *)
(***************************************************************************)
NoSend == [errno |-> "none", sent |-> 0, ret |-> "none"]

InitDrain ==
  /\ drain_pc = "idle"
  /\ send_sent = 0
  /\ packets_sent = 0
  /\ wire = [p \in 1 .. MaxPackets |-> 0]
  /\ drain_popped = {}
  /\ send_last = NoSend

\* what the worker's steps in drainOutputQueue leave alone
DrainKeeps ==
  /\ UNCHANGED <<running_, stop_requested_, internal_state_, now_utc_us,
                 frame_buffer_, pushed_frames, w_pc, w_now, wait_until,
                 sink_start_time_recorded_, sink_start_time_utc_us_,
                 frames_sent_, frames_dropped_, late_frames_,
                 late_frame_drops_, emitted, encoded, last, after_anchor>>
  /\ UNCHANGED <<packets_dropped_, packets_queued, max_output_queue_packets,
                 output_queue_high_water_mark>>
  /\ UNCHANGED <<ringVars, engVars, sinkRest, chanVars, tickVars, tdVars,
                 engine_dtor, rdyVars, fpVars>>

\* a client is accepted at the top of the worker's loop (tryAcceptClient
\* line 692-693)
DrainClientArrives ==
  /\ running_
  /\ drain_pc = "idle"
  /\ ~client_connected_
  /\ client_connected_' = TRUE
  /\ UNCHANGED <<output_queue_, drain_pc, send_sent, packets_sent, wire,
                 drain_popped, send_last>>
  /\ DrainKeeps

\* drainOutputQueue line 839-848, called at workerLoop line 303: nothing is
\* done without a client; else output_queue_mutex_ is taken and the loop
\* over the queue begins
DrainEnter ==
  /\ running_
  /\ w_pc = "top"
  /\ drain_pc = "idle"
  /\ packets_sent' = 0
  /\ send_sent' = 0
  /\ drain_pc' = IF client_connected_ /\ output_queue_ # <<>> THEN "send"
                 ELSE "idle"
  /\ send_last' = NoSend
  /\ UNCHANGED <<client_connected_, output_queue_, wire, drain_popped>>
  /\ DrainKeeps

\* sendToSocket line 757-759: what it returns when send() fails with EAGAIN
\* or EWOULDBLOCK after sent bytes of the packet have gone out
WouldBlockReturn(sent) == sent > 0

\* drainOutputQueue line 856-861 after sendToSocket returned true: the front
\* packet is popped and counted, the loop goes on while packets are left
PopFront ==
  /\ output_queue_' = Tail(output_queue_)
  /\ drain_popped' = drain_popped \cup {Head(output_queue_)}
  /\ packets_sent' = packets_sent + 1
  /\ send_sent' = 0
  /\ drain_pc' = IF Tail(output_queue_) = <<>> THEN "idle" ELSE "send"

\* drainOutputQueue line 852-854 after sendToSocket returned false: break
LeaveFront ==
  /\ drain_pc' = "idle"
  /\ send_sent' = 0
  /\ UNCHANGED <<output_queue_, drain_popped, packets_sent>>

\* one send() of sendToSocket (line 751-778) on the packet at the front of
\* the queue: it takes all that is left of the packet, or PartialBytes of
\* it, or fails with EAGAIN, or fails for good; the last calls
\* handleClientDisconnect (line 711-735), which locks output_queue_mutex_
\* while drainOutputQueue holds it
DrainSend ==
  /\ drain_pc = "send"
  /\ LET pkt == Head(output_queue_)
         left == kTsPacketSize - send_sent
     IN  \E result \in {"all", "part", "EAGAIN", "EPIPE"} :
           CASE result = "all" ->
                  /\ wire' = [wire EXCEPT ![pkt] = @ + left]
                  /\ send_last' = [errno |-> "none", sent |-> kTsPacketSize,
                                   ret |-> "true"]
                  /\ PopFront
                  /\ UNCHANGED client_connected_
             [] result = "part" ->
                  /\ left > PartialBytes
                  /\ wire' = [wire EXCEPT ![pkt] = @ + PartialBytes]
                  /\ send_sent' = send_sent + PartialBytes
                  /\ UNCHANGED <<output_queue_, drain_popped, packets_sent,
                                 drain_pc, send_last, client_connected_>>
             [] result = "EAGAIN" ->
                  /\ send_last' =
                       [errno |-> "EAGAIN", sent |-> send_sent,
                        ret |-> IF WouldBlockReturn(send_sent) THEN "true"
                                ELSE "false"]
                  /\ IF WouldBlockReturn(send_sent) THEN PopFront
                     ELSE LeaveFront
                  /\ UNCHANGED <<wire, client_connected_>>
             [] OTHER ->
                  /\ client_connected_' = FALSE
                  /\ drain_pc' \in RelockOutcomes
                  /\ send_last' = [errno |-> "EPIPE", sent |-> send_sent,
                                   ret |-> "none"]
                  /\ UNCHANGED <<output_queue_, drain_popped, packets_sent,
                                 send_sent, wire>>
  /\ DrainKeeps

\* queueEncodedPacket takes output_queue_mutex_ (line 866): it waits while
\* drainOutputQueue holds it
DrainQueues ==
  /\ drain_pc = "idle"
  /\ QueueEncodedPacket

NextDrain ==
  \/ PaceStart
  \/ DrainQueues
  \/ DrainClientArrives
  \/ DrainEnter
  \/ DrainSend

(***************************************************************************)
(* Specifications.                                                         *)
(***************************************************************************)
\* the state after construction, for either control plane
InitAnyApi ==
  /\ InitRing /\ InitEngine /\ InitSink /\ InitPacing /\ InitChannels
  /\ InitBackpressure /\ InitTeardown /\ InitDestroy /\ InitReadiness
  /\ InitProducer /\ InitDrain

\* the queue limits every specification but SpecQueue runs with
DefaultLimits ==
  /\ max_output_queue_packets = DefaultQueueLimit
  /\ output_queue_high_water_mark = DefaultHighWaterMark

InitAnyLimits == InitAnyApi /\ api = "engine"

Init == InitAnyLimits /\ DefaultLimits

SpecRing == Init /\ [][NextRing]_vars

\* the control plane and the pacing loop do not read the sink's transport
\* mode: one mode stands for both
InitOneMode == Init /\ ~uds_mode

SpecEngine == InitOneMode /\ [][NextEngine]_vars

SpecSink == Init /\ [][NextSink]_vars

SpecPacing == InitOneMode /\ [][NextPacing]_vars

\* the worker thread and the caller of stop() are scheduled; nothing obliges
\* the station clock to move, the producer to push or a client to come
SpecPacingLive ==
  /\ InitOneMode
  /\ [][NextPacing]_vars
  /\ WF_vars(PaceTop)
  /\ WF_vars(PaceDecide)
  /\ WF_vars(PaceWaitReturn)
  /\ WF_vars(PaceStopJoin)

\* either control plane, one transport mode of the sink
InitChannelTable == InitAnyApi /\ ~uds_mode /\ DefaultLimits

SpecChannels == InitChannelTable /\ [][NextChannels]_vars

\* the request threads are scheduled and time passes; nothing obliges the
\* thread of a producer to come back to the top of its loop
SpecChannelsLive ==
  /\ SpecChannels
  /\ \A c \in Callers : WF_vars(HandlerStep(c))
  /\ \A c \in Callers : WF_vars(DeadlinePasses(c))

InitQueue == InitAnyLimits /\ ~uds_mode

SpecBackpressure == InitQueue /\ [][NextBackpressure]_vars

SpecQueue == InitQueue /\ [][NextQueue]_vars

InitService == InitAnyApi /\ ~uds_mode /\ DefaultLimits /\ api = "service"

SpecTeardown == InitService /\ [][NextTeardown]_vars

SpecReadiness == InitService /\ [][NextReadiness]_vars

InitTcpDefaults == Init /\ ~uds_mode

SpecProducer == InitTcpDefaults /\ [][NextProducer]_vars

SpecDrain == InitTcpDefaults /\ [][NextDrain]_vars

\* the decode thread and the threads inside Start() and Stop() are scheduled;
\* nothing obliges anybody to call them or the consumer to take frames
SpecProducerLive ==
  /\ SpecProducer
  /\ \A t \in 1 .. MaxStarts : WF_vars(FpTurn(t))
  /\ \A c \in Callers : WF_vars(FpStartSpawn(c))
  /\ \A c \in Callers : WF_vars(FpStopJoin(c))

(***************************************************************************)
(* Properties of the producer lifecycle (checked under SpecEngine).        *)
(***************************************************************************)
\* the producers whose thread is inside Push on ring r
Pushing(r) == {i \in ProducerIds : producers[i].ring = r /\ producers[i].in_push}

\* C6: at every moment at most one producer thread pushes into a channel's
\* frame ring; a preview producer started by LoadPreview has pushed nothing
\* while it is the preview producer, and after UpdatePlan only the newly
\* created producer pushes.
C6_SingleProducer ==
  /\ \A r \in {"engine", "service"} : Cardinality(Pushing(r)) <= 1
  /\ preview_producer # NoProducer =>
       /\ ~producers[preview_producer].in_push
       /\ producers[preview_producer].frames_produced_ = 0
  /\ worker_producer # NoProducer => Pushing("service") \subseteq {worker_producer}

(***************************************************************************)
(* Properties of the MPEG-TS sink (checked under SpecSink).                *)
(***************************************************************************)
\* C7: a transport write (TsOutputSink::Write, writeAllBlocking) that reports
\* success has handed every byte of its buffer, in order and once, to one
\* client connection (interrupted sends included); a write that fails after
\* its send loop began leaves the client it was called for closed and no
\* longer held as the connected client.
C7_WriteContract ==
  \A t \in Threads :
    /\ wr[t].ret = "ok" => wr[t].good = wr[t].size
    /\ (wr[t].ret = "fail" /\ wr[t].started /\ wr[t].conn # NoConn) =>
         /\ conns[wr[t].conn].st = "closed"
         /\ CurrentClient # wr[t].conn

\* C8: once stop() has returned, the client that was connected when stop()
\* reached its padding step (and has not hung up) has received the whole
\* 188-byte null packet, a total that is a multiple of 188 bytes, and its
\* connection is closed.
C8_NullPacketOnStop ==
  (internal_state_ = "Stopped" /\ stop_conn # NoConn) =>
    (~PeerGone(stop_conn) =>
       /\ conns[stop_conn].null_rx = kTsPacketSize
       /\ conns[stop_conn].rx = 0
       /\ conns[stop_conn].st = "closed")

\* thread t is inside an EncoderPipeline call or inside a loop that sends to
\* the client socket
Busy(t) == enc[t] # "none" \/ wr[t].st \in {"loop", "fail2", "pad"}

\* C9: at every moment at most one thread is writing to the client socket or
\* inside a call of the encoder.
C9_SingleWriter == Cardinality({t \in Threads : Busy(t)}) <= 1

\* the connections that are accepted and not closed
OpenClients == {c \in ClientIds : conns[c].st = "open"}

\* the connections the sink can still reach through a descriptor it holds
HeldClients ==
  {FdConn(client_fd_), FdConn(ts_client_fd_)}
    \cup {FdConn(new_client_fd[t]) : t \in Threads}

\* C10: at most one accepted client connection is open at any time, and every
\* open connection is still reachable through client_fd_ (or through the
\* new_client_fd of a tryAcceptClient in progress): no accepted descriptor was
\* overwritten or dropped without being closed.
C10_SingleClient ==
  /\ Cardinality(OpenClients) <= 1
  /\ OpenClients \subseteq HeldClients

\* the listening socket of the transport in use
ListenSocket == IF uds_mode THEN ts_listen_fd_ ELSE listen_fd_

\* C11: while the sink runs the listening socket stays open, also after a
\* client disconnected, and no client ever receives encoder output of a
\* session that was not opened for it: the encoder is initialised again
\* before the first byte goes to a newly accepted client.
C11_FreshSessionPerClient ==
  /\ internal_state_ = "Running" => ListenSocket # NoFd
  /\ \A c \in ClientIds : ~conns[c].foreign

(***************************************************************************)
(* Properties of the frame ring (checked under SpecRing).                  *)
(***************************************************************************)
\* s is an initial segment of t
IsPrefix(s, t) ==
  /\ Len(s) <= Len(t)
  /\ \A i \in 1 .. Len(s) : s[i] = t[i]

\* C1: with one producer and one consumer, under every interleaving of the
\* index loads, payload copies and index stores, the frames returned by
\* successful Pops are exactly the frames whose Push returned true, each once
\* and in push order: the popped frames followed by the frames still stored
\* between the read and the write index are the pushed frames.
C1_FifoExactlyOnce ==
  /\ IsPrefix(popped, pushed)
  /\ pushed = popped \o RingContents

\* C1 witness: every offered frame was pushed and popped, and there were more
\* frames than slots, so both indices wrapped around.
C1_Witness ==
  /\ Len(popped) = MaxFrames
  /\ MaxFrames > capacity_
  /\ popped = pushed

\* C2: every value Size() returns lies in [0, N], also when its two index
\* loads observe different moments of a concurrent Push and Pop.
C2_SizeInRange == s_ret # NoRet => s_ret \in 0 .. RingN

\* C2 witness: Size() returned N although the indices moved between its two
\* loads and the ring does not hold N frames when it returns.
C2_Witness ==
  /\ s_ret = RingN
  /\ s_stale
  /\ s_pc = "idle"
  /\ Occupancy # RingN

\* C3: Push returns false exactly when the ring holds N frames and Pop returns
\* false exactly when it holds none; a failing call leaves the indices and the
\* stored frames (and Pop's output frame) unchanged; hence the ring never
\* holds more than N frames.
C3_FullEmptyRefusal ==
  [][ /\ (p_pc = "check" /\ p_pc' = "idle") =>
           /\ p_ret' = RetFalse
           /\ Occupancy = RingN
           /\ UNCHANGED <<buffer_, write_index_, read_index_>>
      /\ (p_pc = "check" /\ p_pc' = "copy") => Occupancy < RingN
      /\ (c_pc = "check" /\ c_pc' = "idle") =>
           /\ c_ret' = RetFalse
           /\ Occupancy = 0
           /\ UNCHANGED <<buffer_, write_index_, read_index_, c_frame>>
      /\ (c_pc = "check" /\ c_pc' = "copy") => Occupancy > 0
      /\ Len(pushed) - Len(popped) = Occupancy
    ]_vars

\* C3 witness: a Pop on the empty ring returned false, then N pushes were
\* accepted with no pop in between and the next Push returned false.
C3_Witness ==
  /\ c_ret = RetFalse
  /\ p_ret = RetFalse
  /\ p_pc = "idle"
  /\ Len(pushed) = RingN
  /\ popped = <<>>
  /\ Occupancy = RingN

\* C4: the producer never writes a slot while the consumer reads the same
\* slot, and the consumer only reads a slot whose copy has completed and whose
\* index has been published: the slot holds the oldest unpopped pushed frame.
C4_NoSlotRace ==
  /\ ~(p_pc = "copying" /\ c_pc = "copying" /\ p_current_write = c_current_read)
  /\ c_pc \in {"copy", "copying"} =>
       /\ Len(popped) < Len(pushed)
       /\ buffer_[c_current_read] = pushed[Len(popped) + 1]
  /\ c_frame # Torn
  /\ \A i \in 1 .. Len(popped) : popped[i] # Torn

\* C4 witness: the producer is writing one slot while the consumer is reading
\* another, after the write index has wrapped around.
C4_Witness ==
  /\ p_pc = "copying"
  /\ c_pc = "copying"
  /\ p_current_write < c_current_read

\* C5: Capacity() returns N, the capacity the ring was constructed with and the
\* largest value Size() can reach.
C5_CapacityIsN == cap_ret # NoRet => cap_ret = RingN

(***************************************************************************)
(* Properties of the pacing loop.                                          *)
(***************************************************************************)
\* the worker decides about the frame at the head of the ring
Decides == w_pc = "decide" /\ w_pc' # "decide" /\ frame_buffer_ # <<>>

\* the decision leaves the frame in the ring and emits and counts nothing
HeadKept ==
  /\ frame_buffer_' = frame_buffer_
  /\ emitted' = emitted
  /\ encoded' = encoded
  /\ UNCHANGED <<frames_sent_, frames_dropped_, late_frames_,
                 late_frame_drops_>>

\* the decision pops the frame, emits it and counts no drop
HeadEmitted ==
  /\ frame_buffer_' = Tail(frame_buffer_)
  /\ emitted' = Append(emitted, Head(frame_buffer_))
  /\ frames_sent_' = frames_sent_ + 1
  /\ UNCHANGED <<frames_dropped_, late_frame_drops_>>

\* the decision pops the frame, does not emit it and counts it as dropped,
\* as late and as a late drop
HeadDropped ==
  /\ frame_buffer_' = Tail(frame_buffer_)
  /\ emitted' = emitted
  /\ encoded' = encoded
  /\ frames_sent_' = frames_sent_
  /\ frames_dropped_' = frames_dropped_ + 1
  /\ late_frames_' = late_frames_ + 1
  /\ late_frame_drops_' = late_frame_drops_ + 1

\* C12: once the start time is bound, a frame with gap = now - (start + PTS)
\* below -5000 us stays in the ring and the worker asks the clock to wait for
\* station time deadline - 500 us before it looks again; a frame with -5000 <= gap <=
\* 50000 is popped and emitted; a frame with gap > 50000 is popped, not
\* emitted, and counted in late_frame_drops, frames_dropped and late_frames.
C12_PacingDecision ==
  [][(Decides /\ sink_start_time_recorded_) =>
        LET deadline == sink_start_time_utc_us_ + Head(frame_buffer_).pts
            gap == w_now - deadline
        IN /\ gap < -5000 =>
                HeadKept /\ w_pc' = "wait" /\ wait_until' = deadline - 500
           /\ (gap >= -5000 /\ gap <= 50000) => HeadEmitted /\ w_pc' = "top"
           /\ gap > 50000 => HeadDropped /\ w_pc' = "top"
    ]_vars

\* a frame 1 us past the late tolerance was dropped after an early frame was
\* waited for and frames were emitted
C12_Witness ==
  /\ last.kind = "late_drop"
  /\ last.gap = kMaxLateToleranceUs + 1
  /\ frames_sent_ >= 2
  /\ wait_until > 0

\* the start time and whether it is bound
StartTime == <<sink_start_time_recorded_, sink_start_time_utc_us_>>

\* every frame popped so far was dropped as stale
OnlyStaleSoFar ==
  /\ emitted = <<>>
  /\ frames_dropped_ = Len(pushed_frames) - Len(frame_buffer_)
  /\ late_frame_drops_ = frames_dropped_

C14_StaleFirstFrame ==
  [][(Decides /\ ~sink_start_time_recorded_) =>
        LET age == w_now - Head(frame_buffer_).pts
        IN IF age > 50000 /\ age < 1000000
           THEN /\ HeadDropped
                /\ ~sink_start_time_recorded_'
                /\ w_pc' = "top"
           ELSE /\ sink_start_time_recorded_'
                /\ UNCHANGED <<frames_dropped_, late_frame_drops_>>
    ]_vars

\* a first frame just inside the timebase threshold was dropped as stale and
\* the frame after it bound the start time
C14_Witness ==
  /\ last.kind = "anchor"
  /\ frames_dropped_ = 1
  /\ late_frame_drops_ = 1
  /\ pushed_frames[1].pts = StationEpoch - kSameTimebaseThresholdUs + 1
  /\ last.id = 2

\* C15: when the first frame the worker sees is early (station time - PTS =
\* -EarlyLeadUs), the frame is not dropped, the start time is bound on it,
\* and the worker waits before it emits the frame.
C15_EarlyFirstFrameWaits ==
  [][(/\ Decides
      /\ Head(frame_buffer_).id = 1
      /\ w_now - Head(frame_buffer_).pts = -EarlyLeadUs) =>
        /\ UNCHANGED <<frames_dropped_, late_frame_drops_>>
        /\ sink_start_time_recorded_'
        /\ sink_start_time_utc_us_' = w_now - Head(frame_buffer_).pts
        /\ emitted' = emitted
        /\ w_pc' = "wait"
    ]_vars

\* the frames of s are frames that were pushed, in push order, none twice
InPushOrder(s) ==
  /\ \A i \in 1 .. Len(s) :
       s[i].id \in 1 .. Len(pushed_frames) /\ s[i] = pushed_frames[s[i].id]
  /\ \A i, j \in 1 .. Len(s) : i < j => s[i].id < s[j].id

\* the PTS of s grow strictly
PtsIncreasing(s) == \A i, j \in 1 .. Len(s) : i < j => s[i].pts < s[j].pts

\* C16: the frames handed to the encoder are a subsequence of the frames in
\* the order they were pushed into the ring, none emitted twice; every
\* frame popped from the ring was either emitted or counted as dropped; so
\* when the pushed PTS grow strictly, the emitted PTS grow strictly.
C16_EmittedInPushOrder ==
  /\ InPushOrder(emitted)
  /\ InPushOrder(encoded)
  /\ \A i \in 1 .. Len(encoded) : \E j \in 1 .. Len(emitted) :
       encoded[i] = emitted[j]
  /\ frames_sent_ = Len(emitted)
  /\ Len(pushed_frames) - Len(frame_buffer_) = frames_sent_ + frames_dropped_
  /\ PtsIncreasing(pushed_frames) =>
       PtsIncreasing(emitted) /\ PtsIncreasing(encoded)

\* of three frames with growing PTS the first and the third were encoded and
\* the second was dropped as late
C16_Witness ==
  /\ Len(encoded) = 2
  /\ encoded[1].id = 1
  /\ encoded[2].id = 3
  /\ frames_dropped_ = 1
  /\ PtsIncreasing(pushed_frames)

\* C20: once stop() has requested the stop, the pacing worker leaves its
\* loop and stop() returns, wherever the worker is: backing off on an empty
\* ring, or waiting for the deadline of an early frame that station time
\* never reaches.
C20_StopTerminates == stop_requested_ ~> internal_state_ = "Stopped"

(***************************************************************************)
(* Properties of SwitchToLive (checked under SpecEngine).                  *)
(***************************************************************************)
\* C17: a SwitchToLive call succeeds only when, as it is made, the channel's
\* preview is loaded and has signalled shadow-decode readiness; a call made
\* after LoadPreview and before the preview is ready fails.
C17_SwitchGatedOnReady ==
  [][last_switch'.why = "ok" =>
        IF last_switch'.path = "engine"
        THEN /\ preview_producer # NoProducer
             /\ IsShadowDecodeReady(preview_producer)
        ELSE /\ preview_slot.loaded
             /\ IsShadowDecodeReady(preview_slot.producer)
    ]_vars

\* the state of the channels a SwitchToLive call can reach
ChannelState ==
  <<producers, channels_, eng_starting, live_producer, preview_producer,
    plan_handle, active_channels_, live_slot_producer, worker_producer,
    worker_plan_handle, preview_slot, switch_mark>>

\* C18: a SwitchToLive call refused because no preview is loaded, or because
\* the preview holds another asset id, reports failure and changes nothing:
\* the producers (the live one keeps running and publishing), the preview
\* slot, what the producers have put into the ring and the channel map are
\* as before the call.
C18_RefusedSwitchChangesNothing ==
  [][last_switch'.why \in {"no_preview", "mismatch"} =>
        /\ ChannelState' = ChannelState
        /\ \A i \in {live_producer, live_slot_producer} \ {NoProducer} :
             producers'[i].running_ = producers[i].running_
    ]_vars

\* a switch to another asset than the loaded preview was refused while the
\* live producer of the channel runs
C18_Witness ==
  /\ last_switch = SvcResult("mismatch")
  /\ preview_slot.loaded
  /\ live_slot_producer # NoProducer
  /\ producers[live_slot_producer].running_
  /\ producers[live_slot_producer].frames_produced_ > 0
  /\ live_producer # NoProducer
  /\ producers[live_producer].running_

\* the live producer publishes the first frame since a switch made it live
FirstLiveFrame ==
  /\ switch_mark.due
  /\ live_producer # NoProducer
  /\ live_producer' = live_producer
  /\ producers[live_producer].in_push
  /\ ~producers'[live_producer].in_push
  /\ producers'[live_producer].frames_produced_ =
       producers[live_producer].frames_produced_ + 1

\* C19: after every successful SwitchToLive the first frame the new live
\* producer publishes has the last PTS of the producer it replaced plus one
\* frame step.
C19_PtsContiguous ==
  [][FirstLiveFrame =>
        NextPts(producers[live_producer]) =
          switch_mark.prev_last + kStubPtsStep
    ]_vars

(***************************************************************************)
(* Properties of the channel table (checked under SpecChannels and, for    *)
(* termination, SpecChannelsLive).                                         *)
(***************************************************************************)
\* the positions in which StopChannel and SwitchToLive wait for a producer
\* whose teardown they requested
TeardownPcs == {"poll_live", "poll_preview", "poll_switch"}

\* C21: StopChannel, and the hand-over inside SwitchToLive, complete: a
\* request thread that waits for a producer it asked to tear down returns
\* from its handler, whether or not the producer's thread ever observes the
\* request (a producer still running at the teardown timeout is force-stopped,
\* not waited for)
C21_StopCompletes ==
  \A c \in Callers : (call[c].pc \in TeardownPcs) ~> (call[c].pc = "idle")

\* request thread c leaves the readiness wait of StartChannel in this step
\* although readiness was not reached
StartTimesOut(c) ==
  /\ call[c].pc \in {"wait_depth", "wait_ready"}
  /\ call[c].state.depth < ReadyDepth
  /\ call'[c].pc = "idle"

\* request thread c returns from StartChannel at its first check
StartReturnsAtEntry(c) ==
  /\ call[c].pc = "lock"
  /\ call'[c].pc = "idle"
  /\ last_event'.op = "StartChannel"

C23_StartAgainIsNoop ==
  [][\A c \in Callers :
       StartReturnsAtEntry(c) =>
         /\ last_event'.ret.ok
         /\ channel_table' = channel_table
         /\ channel_metrics_' = channel_metrics_]_vars

\* request thread c returns from a StopChannel for an id that an earlier
\* StopChannel has stopped (its channel is gone, its telemetry says STOPPED)
StopsAgain(c) ==
  /\ call[c].pc = "lock"
  /\ call'[c].pc = "idle"
  /\ last_event'.op = "StopChannel"
  /\ ~channel_table[call[c].ch].present
  /\ channel_metrics_[call[c].ch] = "STOPPED"

\* C24: a StopChannel for a channel that was already stopped returns success,
\* changes nothing and leaves the channel's telemetry at STOPPED
C24_StopAgainIsNoop ==
  [][\A c \in Callers :
       StopsAgain(c) =>
         /\ last_event'.ret.ok
         /\ channel_table' = channel_table
         /\ channel_metrics_'[call[c].ch] = "STOPPED"]_vars

\* the handler request thread c runs in this step
StepOp(c) == IF call'[c].pc = "idle" THEN last_event'.op ELSE call'[c].op

\* request thread c enters StopChannel, LoadPreview, SwitchToLive or
\* UpdatePlan for an id that is not in the channel map
EntersForMissing(c) ==
  /\ call[c].pc = "lock"
  /\ call'[c].pc # "lock"
  /\ ~channel_table[call[c].ch].present
  /\ StepOp(c) \in {"StopChannel", "LoadPreview", "SwitchToLive",
                    "UpdatePlan"}

\* C25: StopChannel, LoadPreview, SwitchToLive and UpdatePlan for an id that
\* is not in the channel map return a not-found failure at once, create no
\* channel and change no channel and no telemetry record
C25_MissingChannelNotFound ==
  [][\A c \in Callers :
       EntersForMissing(c) =>
         /\ call'[c].pc = "idle"
         /\ last_event'.ret = Result(FALSE, "not_found")
         /\ channel_table' = channel_table
         /\ channel_metrics_' = channel_metrics_]_vars

\* UpdatePlan for a missing id has just been refused while the other channel
\* is in the map and reports READY
C25_Witness ==
  /\ last_event.op = "UpdatePlan"
  /\ last_event.ret.why = "not_found"
  /\ \E ch \in ChannelIds :
       /\ ch # last_event.ch
       /\ channel_table[ch].present
       /\ channel_metrics_[ch] = "READY"

\* C26: channels_mutex_ is held only across look-ups and edits of the map: no
\* request thread holds it while it sleeps, polls or waits for readiness or
\* for a producer, and no request for one channel waits for the mutex while
\* its holder is in the start or stop wait of another channel
C26_MutexOnlyAcrossMapAccess ==
  \A c \in Callers :
    /\ channels_mutex_ = c => call[c].pc \notin WaitPcs
    /\ \A d \in Callers :
         (call[c].pc = "lock" /\ channels_mutex_ = d /\ call[d].pc \in WaitPcs)
           => call[c].ch = call[d].ch

\* the handler request thread c is in, or enters, in this step
OpOf(c) == IF call[c].pc = "lock" THEN StepOp(c) ELSE call[c].op

\* this step belongs to an operation or a telemetry update addressed to
\* channel a
Addressed(a) ==
  \/ \E c \in Callers :
       /\ call'[c] # call[c]
       /\ call[c].pc # "idle"
       /\ call[c].ch = a
       /\ OpOf(c) \in {"StopChannel", "LoadPreview", "SwitchToLive",
                       "UpdatePlan"}
  \/ /\ last_event'.op \in {"UpdateChannelMetrics", "RemoveChannel"}
     /\ last_event'.ch = a

\* C30: a step of StopChannel, LoadPreview, SwitchToLive, UpdatePlan,
\* UpdateChannelMetrics or RemoveChannel addressed to one channel changes
\* neither the map entry (ring, producers, plan) nor the telemetry record of
\* any other channel
C30_ChannelsAreIsolated ==
  [][\A a \in ChannelIds :
       Addressed(a) =>
         \A b \in ChannelIds \ {a} :
           /\ channel_table'[b] = channel_table[b]
           /\ channel_metrics_'[b] = channel_metrics_[b]]_vars

\* an error state has just been recorded for one of two started channels and
\* the other still reports READY
C30_Witness ==
  /\ last_event.op = "UpdateChannelMetrics"
  /\ channel_metrics_[last_event.ch] = "ERROR_STATE"
  /\ \E b \in ChannelIds \ {last_event.ch} :
       /\ channel_table[b].present
       /\ channel_table[last_event.ch].present
       /\ channel_metrics_[b] = "READY"

(***************************************************************************)
(* Back-pressure events of the orchestration tick.                         *)
(***************************************************************************)
\* the depth the last tick read, and whether the tick before it left a
\* condition asserted, for a ring constructed with capacity RingN
TickDepth == tick_depths[Len(tick_depths)]
WasUnderrun == Len(tick_depths) = 2 /\ UnderrunAt(tick_depths[1])
WasOverrun == Len(tick_depths) = 2 /\ OverrunAt(tick_depths[1], RingN)

\* C27: over any sequence of ticks, Underrun is reported exactly on a tick
\* with depth = 0 while underrun was not asserted, Overrun exactly on a tick
\* with depth + 1 >= capacity while overrun was not asserted, and
\* BackpressureCleared exactly on a tick where a condition asserted before
\* holds no more; a condition that lasts is reported once.
C27_EventsOncePerCrossing ==
  tick_depths # <<>> =>
    /\ "Underrun" \in tick_events
         <=> (UnderrunAt(TickDepth) /\ ~WasUnderrun)
    /\ "Overrun" \in tick_events
         <=> (OverrunAt(TickDepth, RingN) /\ ~WasOverrun)
    /\ "BackpressureCleared" \in tick_events
         <=> \/ WasUnderrun /\ ~UnderrunAt(TickDepth)
             \/ WasOverrun /\ ~OverrunAt(TickDepth, RingN)

\* the same statement with the capacity the ring reports to the tick
TickFollowsReportedCapacity ==
  tick_depths # <<>> =>
    /\ "Underrun" \in tick_events
         <=> (UnderrunAt(TickDepth) /\ ~WasUnderrun)
    /\ "Overrun" \in tick_events
         <=> /\ OverrunAt(TickDepth, capacity_)
             /\ ~(Len(tick_depths) = 2 /\ OverrunAt(tick_depths[1], capacity_))
    /\ "BackpressureCleared" \in tick_events
         <=> \/ WasUnderrun /\ ~UnderrunAt(TickDepth)
             \/ /\ Len(tick_depths) = 2
                /\ OverrunAt(tick_depths[1], capacity_)
                /\ ~OverrunAt(TickDepth, capacity_)

(***************************************************************************)
(* The encoded-packet queue.                                               *)
(***************************************************************************)
\* a call of queueEncodedPacket that found the queue at its maximum
QueuedAtMaximum ==
  /\ packets_queued' = packets_queued + 1
  /\ Len(output_queue_) = max_output_queue_packets

\* what the claim says of such a call: the oldest packet is gone, the others
\* keep their order, the new packet is the newest and one drop is counted
OldestGaveWay ==
  /\ output_queue_ # <<>>
  /\ output_queue_' = Append(Tail(output_queue_), packets_queued')
  /\ packets_dropped_' = packets_dropped_ + 1

QueueBoundedFromOne ==
  [][max_output_queue_packets >= 1 =>
       /\ Len(output_queue_') <= max_output_queue_packets
       /\ QueuedAtMaximum => OldestGaveWay]_vars

(***************************************************************************)
(* The high-water mark of the encoded-packet queue.                        *)
(***************************************************************************)
\* a step that pops a frame from the ring, binds the start time or hands a
\* frame to the encoder
PopsAnchorsOrEncodes ==
  \/ Len(frame_buffer_') < Len(frame_buffer_)
  \/ sink_start_time_recorded_' # sink_start_time_recorded_
  \/ encoded' # encoded

\* C29: a pacing-loop iteration that observes the occupancy of the
\* encoded-packet queue above the high-water mark pops no frame from the
\* ring, does not anchor the start time and encodes nothing: the iteration
\* ends where it made the observation, and frames are popped, the start time
\* bound and frames encoded only by an iteration that went past it.
C29_AboveMarkNothingEncoded ==
  [][/\ (w_pc = "top"
         /\ Len(output_queue_') > output_queue_high_water_mark)
        => (w_pc' # "decide" /\ ~PopsAnchorsOrEncodes)
     /\ PopsAnchorsOrEncodes => w_pc = "decide"]_vars

\* an iteration has just ended above the mark with a frame waiting in the
\* ring and the start time still unbound
C29_Witness ==
  /\ last = SkippedIteration
  /\ w_pc = "top"
  /\ Len(output_queue_) > output_queue_high_water_mark
  /\ frame_buffer_ # <<>>
  /\ ~sink_start_time_recorded_

(***************************************************************************)
(* Properties of the service's teardown (checked under SpecTeardown).      *)
(***************************************************************************)
\* the monitor thread of the channel stands in front of channels_mutex_
MonitorWantsMutex(ch) == monitor_pc[ch] \in {"lock", "finalize"}

\* a request thread, or the destructor, holds channels_mutex_ inside join()
\* on the monitor thread of the channel
JoinsHoldingMutex(ch) ==
  \/ \E c \in Callers : stop_pc[c] = [pc |-> "join", ch |-> ch]
                        /\ td_mutex = RequestThread
  \/ dtor_pc = [pc |-> "join", ch |-> ch] /\ td_mutex = DestructorThread

\* C31: a StopChannel request, or the destruction of the service, that
\* arrives while a monitor thread of RequestTeardown is active for the
\* channel always completes: in no reachable state does the caller hold the
\* channel-map mutex inside the join of the monitor thread while the monitor
\* thread waits for that mutex.
C31_NoJoinUnderMutex ==
  \A ch \in ChannelIds : ~(JoinsHoldingMutex(ch) /\ MonitorWantsMutex(ch))

(***************************************************************************)
(* Destruction of the engine (checked under SpecChannels).                 *)
(***************************************************************************)
\* C32: destroying a PlayoutEngine that still has started channels stops
\* every channel and returns, never blocking forever, and leaves the channel
\* map empty.
C32_DestructorReturns ==
  engine_dtor # "alive" =>
    /\ engine_dtor = "done"
    /\ channels_mutex_ = NoCaller
    /\ \A ch \in ChannelIds : ~channel_table[ch].present

(***************************************************************************)
(* Callers of FrameRingBuffer::Clear (checked under SpecEngine).           *)
(***************************************************************************)
\* the producers whose thread runs on ring r, those in S left aside
RunningOn(r, S) ==
  {i \in ProducerIds \ S : /\ producers[i].alive = "alive"
                           /\ producers[i].running_
                           /\ producers[i].ring = r}

\* the step is PlayoutEngine::StopChannel, which clears the ring after it
\* has stopped live_producer and preview_producer
EngineClears == channels_ /\ ~channels_'

\* the step is PlayoutControlImpl::UpdatePlan, which clears the ring after
\* it has stopped ChannelWorker::producer
ServiceClears == active_channels_ /\ worker_producer' # worker_producer

\* C33: Clear() is invoked on a ring (in StopChannel and in UpdatePlan) only
\* while no producer thread and no consumer thread of that ring is running;
\* it is never concurrent with a Push or a Pop.
C33_ClearOnlyWhenQuiescent ==
  [][/\ EngineClears =>
          RunningOn("engine", {live_producer, preview_producer}) = {}
     /\ ServiceClears =>
          RunningOn("service", {worker_producer}) = {}]_vars

\* the part of it that is about PlayoutEngine::StopChannel
EngineClearsWhenQuiescent ==
  [][EngineClears =>
       RunningOn("engine", {live_producer, preview_producer}) = {}]_vars

(***************************************************************************)
(* The sink without a consumer: workerLoop line 273-320 and processFrame   *)
(* line 482-499 of src/src/playout_sinks/mpegts/MpegTSPlayoutSink.cpp.     *)
(***************************************************************************)
\* the worker thread and the caller of stop() are scheduled; nothing obliges
\* the producer to push, a packet to be queued or a client to come
SpecQueueLive ==
  /\ SpecQueue
  /\ WF_vars(PaceTop)
  /\ WF_vars(PaceDecide)
  /\ WF_vars(PaceStopJoin)

\* the worker is at the top of its loop with no consumer and nobody stopping
IdleWithoutConsumer ==
  /\ w_pc = "top"
  /\ running_
  /\ ~stop_requested_
  /\ ~client_connected_

\* the worker got past the queue test and looks at the ring, or the case
\* ended because a consumer came or the sink is being stopped
ReachesRing ==
  \/ w_pc = "decide"
  \/ client_connected_
  \/ stop_requested_

\* processFrame reaches encodeFrame only with a consumer attached
NoEncoderWithoutConsumer ==
  [][encoded' # encoded => client_connected_]_vars

BelowMarkKeepsPacing ==
  (/\ IdleWithoutConsumer
   /\ [](Len(output_queue_) < output_queue_high_water_mark))
    ~> ReachesRing

(***************************************************************************)
(* The readiness signal in the service's StartChannel (SpecReadiness).     *)
(***************************************************************************)
\* where StartChannel can be when the callback is in time: in
\* loadPreviewAsset, between the load and the wait, or in the wait
InTimePhases == {"loading", "loaded", "lock", "waiting", "woken"}

\* C35: when the producer's ShadowDecodeReady event fires after the load
\* was triggered and before the 5 s ran out, or the producer reports
\* IsShadowDecodeReady() before they ran out, StartChannel does not report
\* a readiness timeout.
C35_ReadinessNeverLost ==
  (ready_in_time \/ fired_during \in InTimePhases) => sc_result # "timeout"

\* the callback ran while StartChannel was blocked in wait_for, the producer
\* does not report readiness itself, and StartChannel went on
C35_Witness ==
  /\ sc_result = "ready"
  /\ fired_during = "waiting"
  /\ ~producer_shadow_ready

\* the callback ran during loadPreviewAsset and StartChannel went on
FiredDuringLoad == sc_result = "ready" /\ fired_during = "loading"

\* the 5 s ran out without the callback, the producer reported readiness at
\* the second look and StartChannel went on
ReportedAtTimeout ==
  /\ sc_result = "ready"
  /\ wait_timed_out
  /\ ready_in_time
  /\ fired_during \in {"none", "late"}

\* a producer that is not ready in time does make StartChannel time out
TimeoutIsReported == sc_result = "timeout"

(***************************************************************************)
(* One FrameProducer and its thread (SpecProducer, SpecProducerLive).      *)
(***************************************************************************)
\* the decode loop was left at the end of the stream: every thread Start()
\* made has ended and nobody is inside Start(), Stop() or the destructor
EndedOnItsOwn ==
  /\ fp_object = "alive"
  /\ fp_threads # <<>>
  /\ DecodeThreads = {}
  /\ \A c \in Callers : fp_call[c] = NoCall

\* C36: IsRunning() tells whether the producer is running: once the decode
\* loop has ended on its own at the end of the stream, IsRunning() is false
\* without a call of Stop(), so that a caller polling it is not left
\* waiting.
C36_IsRunningFollowsThread == EndedOnItsOwn => ~fp_running_

\* after Stop() IsRunning() is false
StoppedIsNotRunning ==
  (fp_last.ret = "stopped" /\ \A c \in Callers : fp_call[c] = NoCall)
    => ~fp_running_

(***************************************************************************)
(* What a successful StopChannel leaves behind (SpecChannels).             *)
(***************************************************************************)
\* request thread c returns from StopChannel with success in this step
StopSucceeds(c) ==
  /\ call[c].pc # "idle"
  /\ call'[c].pc = "idle"
  /\ last_event'.op = "StopChannel"
  /\ last_event'.ret.ok

\* the channel is out of the map, with it its producers, renderer and ring
Released(ch) == channel_table'[ch] = NoChannel

\* C37: when StopChannel returns success the channel is no longer in the
\* channel map, its producer threads and its renderer have ended, its ring
\* is empty, and the telemetry store still holds a record for the channel
\* whose state is STOPPED.
C37_StopReleasesKeepsStopped ==
  [][\A c \in Callers :
       StopSucceeds(c) =>
         /\ Released(call[c].ch)
         /\ channel_metrics_'[call[c].ch] = "STOPPED"]_vars

\* all of it holds of PlayoutEngine::StopChannel
EngineStopKeepsStopped ==
  [][\A c \in Callers :
       (StopSucceeds(c) /\ api = "engine") =>
         /\ Released(call[c].ch)
         /\ channel_metrics_'[call[c].ch] = "STOPPED"]_vars

\* and the release holds of both control planes
StopReleases ==
  [][\A c \in Callers : StopSucceeds(c) => Released(call[c].ch)]_vars

\* calling thread c makes the exchange of Start() in this step
AtExchange(c) ==
  /\ fp_call[c] = NoCall
  /\ \/ fp_call'[c].op = "Start"
     \/ /\ fp_last' # fp_last
        /\ fp_last'.op = "Start"
        /\ fp_call' = fp_call

\* C38: a FrameProducer has at most one decode thread at any time: Start()
\* returns true and makes a thread only when the producer is not running,
\* and a Start() issued while it is running, two racing calls included,
\* returns false without making a thread or changing state.
C38_OneDecodeThread ==
  /\ [](Cardinality(DecodeThreads) <= 1)
  /\ [][/\ \A c \in Callers :
            (AtExchange(c) /\ fp_running_) =>
              /\ fp_last'.ret = "false"
              /\ UNCHANGED <<fp_object, fp_running_, fp_stop_requested_,
                             producer_thread_, fp_threads, fp_depth>>
        /\ fp_threads' # fp_threads /\ Len(fp_threads') > Len(fp_threads) =>
             /\ fp_last'.ret = "true"
             /\ DecodeThreads = {}]_vars

\* two threads raced in Start(): one of them is past the exchange, the
\* other answered false
C38_Witness ==
  /\ \E c \in Callers : fp_call[c].pc = "spawn"
  /\ fp_last = [op |-> "Start", ret |-> "false", was_running |-> TRUE]
  /\ fp_threads = <<>>

\* no std::thread is replaced while it can still be joined
NeverTerminates == fp_object # "terminated"

\* at most one thread is started and not joined
OneUnjoinedThread == Cardinality(Unjoined) <= 1

\* calling thread c enters Stop() or the destructor in this step
EntersStop(c) ==
  /\ fp_call[c] = NoCall
  /\ \/ fp_call'[c].pc = "join"
     \/ fp_last' # fp_last /\ fp_last'.ret = "noop" /\ fp_call' = fp_call

\* calling thread c returns from the join of Stop() in this step
LeavesStop(c) == fp_call[c].pc = "join" /\ fp_call'[c] = NoCall

\* somebody is inside Stop() or the destructor of a running producer
InStop == \E c \in Callers : fp_call[c].pc = "join"

\* C39: Stop() on a producer that was never started or is stopped already
\* does nothing; Stop() on a running producer always returns, also when the
\* ring stays full because nothing takes frames from it, and when it
\* returns the decode thread has ended and IsRunning() is false; destroying
\* a running producer stops it the same way.
C39_StopAlwaysReturns ==
  /\ [][\A c \in Callers :
          /\ (EntersStop(c) /\ ~fp_running_) =>
               UNCHANGED <<fp_running_, fp_stop_requested_, producer_thread_,
                           fp_threads, fp_depth, fp_call>>
          /\ LeavesStop(c) => (DecodeThreads' = {} /\ ~fp_running_')]_vars
  /\ InStop ~> ~InStop

\* Stop() has returned from a running producer whose ring is full
C39_Witness ==
  /\ fp_last = [op |-> "Stop", ret |-> "stopped", was_running |-> TRUE]
  /\ fp_depth = RingN
  /\ DecodeThreads = {}
  /\ ~fp_running_

\* the destructor has stopped a running producer
DestroyedRunning ==
  /\ fp_last = [op |-> "Destroy", ret |-> "stopped", was_running |-> TRUE]
  /\ fp_object = "destroyed"

\* Stop() was called on a producer that was never started
StoppedUnstarted == fp_last.ret = "noop" /\ fp_threads = <<>>

(***************************************************************************)
(* Draining the encoded-packet queue (SpecDrain).                          *)
(***************************************************************************)
\* C40: drainOutputQueue removes a packet from the queue only after all of
\* its bytes were sent to the client; when the socket would block, also
\* after a part of the packet was sent, sendToSocket returns false and the
\* packet is neither removed nor counted as sent.
C40_PoppedOnlyWhenSent ==
  /\ \A p \in drain_popped : wire[p] = kTsPacketSize
  /\ send_last.errno = "EAGAIN" => send_last.ret = "false"

\* a socket that blocks before the first byte of a packet leaves the packet
\* in the queue
BlockedAtStartStays ==
  (send_last.errno = "EAGAIN" /\ send_last.sent = 0) =>
    (send_last.ret = "false" /\ drain_pc = "idle" /\ output_queue_ # <<>>)

====
